---- MODULE Spec2Model ----
(***************************************************************************)
(* Risk-adjustment demo server: RAF calculator, rule-based Risk Agent,     *)
(* Finance Impact Agent, Compliance Agent, Orchestrator, what-if           *)
(* simulation and executive chat, modelled from the JavaScript sources.    *)
(*                                                                         *)
(* Number representation (all integers):                                   *)
(*   risk_score, confidence, thresholds on them : hundredths  (0.65 = 65)  *)
(*   RAF, HCC weights, demographic factors      : thousandths (1.22 = 1220)*)
(*   money (allowed_amount, revenue, premium)   : whole dollars            *)
(*   a JavaScript NaN is the value NaN below, a null is the string "null"  *)
(* In the server's responses money is in cents unless a comment says       *)
(* otherwise, a quotient kept exactly is the pair <<n, d>> in lowest       *)
(* terms, a value that may be null or NaN is <<>> then and <<v>> else, and *)
(* a text is the list of its characters or of the pieces a template puts   *)
(* together.                                                               *)
(*                                                                         *)
(* Specifications: SpecAgent (runAgent), SpecRAF (computeRAF),             *)
(* SpecFinance (runFinanceAgent), SpecCompliance (runComplianceAgent),     *)
(* SpecInterpret (interpretQuery), SpecChatQuery (runChatQuery),           *)
(* SpecBatch (runAgentBatch), SpecOrchestrator (runOrchestrator,           *)
(* statement by statement), Spec (the server and its route handlers),      *)
(* FairSpec (Spec with the event loop's fairness).  One chat request is in *)
(* flight at a time.                                                       *)
(***************************************************************************)
EXTENDS Integers, Sequences, FiniteSets, TLC

VARIABLES
    member,           \* argument of the function under evaluation: the member
    claimsByMember,   \* argument of the function under evaluation: the claims index
    call,             \* which function is evaluated and whether it has returned
    result,           \* the value returned
    pc,               \* runOrchestrator: the stage reached
    riskOutput,       \* runOrchestrator: local riskOutput
    financeOutput,    \* runOrchestrator: local financeOutput (<<>> is null)
    complianceOutput, \* runOrchestrator: local complianceOutput
    stages,           \* runOrchestrator: the steps taken so far, in order
    env,              \* index.js: process.env (VERCEL, OPENAI_API_KEY set or not)
    members,          \* index.js: members of the snapshot loaded at startup
    claims,           \* index.js: claims of the snapshot loaded at startup
    claimByMember,    \* index.js: claims index, member_id -> list of claims
    memberRAF,        \* index.js: member_id -> RAF, built at startup
    memberSuspects,   \* index.js: member_id -> suspects, built at startup
    response,         \* index.js: the response sent last
    chat              \* index.js: the POST /api/chat/query handler in flight

fnVars     == <<member, claimsByMember, call, result>>
orchVars   == <<pc, riskOutput, financeOutput, complianceOutput, stages>>
snapshot   == <<members, claims, claimByMember, memberRAF, memberSuspects>>
serverVars == <<env, snapshot, response, chat>>
vars       == <<fnVars, orchVars, serverVars>>

\* The orchestrator's locals while no run of it is modelled.
OrchIdle ==
    /\ pc = "none"
    /\ riskOutput = <<>>
    /\ financeOutput = <<>>
    /\ complianceOutput = <<>>
    /\ stages = <<>>

\* The server's state while no server is modelled.
ServerIdle ==
    /\ env = [VERCEL |-> FALSE, OPENAI_API_KEY |-> FALSE]
    /\ members = <<>>
    /\ claims = <<>>
    /\ claimByMember = <<>>
    /\ memberRAF = <<>>
    /\ memberSuspects = <<>>
    /\ response = [handler |-> "none"]
    /\ chat = [pc |-> "idle"]

(***************************************************************************)
(* Generic helpers                                                         *)
(***************************************************************************)
\* Each helper takes the value of its list argument once (\E v \in {s})
\* and works on that value.
RECURSIVE SumTo(_, _)
SumTo(v, n) == CHOOSE r \in {IF k = 0 THEN 0 ELSE v[k] + SumTo(v, k - 1) : k \in {n}} : TRUE

\* Array.prototype.reduce((s, x) => s + x, 0)
SumSeq(s) == CHOOSE r \in {SumTo(v, Len(v)) : v \in {s}} : TRUE

Min(a, b) == CHOOSE r \in {IF x <= y THEN x ELSE y : x \in {a}, y \in {b}} : TRUE
Max(a, b) == CHOOSE r \in {IF x >= y THEN x ELSE y : x \in {a}, y \in {b}} : TRUE

Includes(s, x) == \E v \in {s} : \E i \in 1..Len(v) : v[i] = x

\* Math.round(n / d) for d > 0: the nearest integer, a half rounded up
\* (\div rounds down, also below zero)
RoundDiv(n, d) == CHOOSE r \in {(2 * x + d) \div (2 * d) : x \in {n}} : TRUE

\* const v = x; F(v): the value of x is taken once
Let(x, F(_)) == CHOOSE r \in {F(v) : v \in {x}} : TRUE

\* The concatenation of the lists in a list of lists, in order
RECURSIVE FlattenTo(_, _)
FlattenTo(v, n) ==
    CHOOSE r \in {IF k = 0 THEN <<>> ELSE FlattenTo(v, k - 1) \o v[k] : k \in {n}} : TRUE

Flatten(seqs) == Let(seqs, LAMBDA v : FlattenTo(v, Len(v)))

Map(f(_), s) == CHOOSE r \in {[i \in 1..Len(v) |-> f(v[i])] : v \in {s}} : TRUE

(***************************************************************************)
(* risk-adjustment.js : RAF calculator                                     *)
(***************************************************************************)
\* A JavaScript NaN (kept apart from every number the program computes).
NaN == 0 - 1

BASE_RATE_PMPM == 900

HCC_CODES == {"HCC_18", "HCC_85", "HCC_96", "HCC_108", "HCC_19"}

\* Own properties of the HCC_WEIGHTS object literal, in thousandths.
HCC_WEIGHTS == [c \in HCC_CODES |->
    CASE c = "HCC_18"  -> 320
      [] c = "HCC_85"  -> 450
      [] c = "HCC_96"  -> 290
      [] c = "HCC_108" -> 380
      [] c = "HCC_19"  -> 140]

AgeBands == {"18-34", "35-44", "45-54", "55-64", "65+"}

\* Own properties of DEMO_RAF_BY_AGE_GENDER, in thousandths.
DEMO_RAF_BY_AGE_GENDER == [b \in AgeBands |->
    CASE b = "18-34" -> [M |-> 350,  F |-> 420]
      [] b = "35-44" -> [M |-> 450,  F |-> 520]
      [] b = "45-54" -> [M |-> 620,  F |-> 680]
      [] b = "55-64" -> [M |-> 880,  F |-> 920]
      [] b = "65+"   -> [M |-> 1150, F |-> 1220]]

\* Both tables are plain object literals, so obj[key] also finds the
\* properties every object inherits (constructor, toString, ...): a
\* function, which is neither null/undefined (for ??) nor falsy (for ||).
ObjectPrototypeKeys == {"constructor", "toString", "valueOf", "hasOwnProperty"}

getAgeBand(age) ==
    IF age < 35 THEN "18-34"
    ELSE IF age < 45 THEN "35-44"
    ELSE IF age < 55 THEN "45-54"
    ELSE IF age < 65 THEN "55-64"
    ELSE "65+"

\* row[gender] ?? 0.5 ; NaN stands for the inherited function, which turns
\* every later sum into NaN.
getDemographicRAF(age, gender) ==
    LET row == DEMO_RAF_BY_AGE_GENDER[getAgeBand(age)]
    IN  IF gender \in DOMAIN row THEN row[gender]
        ELSE IF gender \in ObjectPrototypeKeys THEN NaN
        ELSE 500

\* HCC_WEIGHTS[code] || 0
WeightOf(code) ==
    IF code \in HCC_CODES THEN HCC_WEIGHTS[code]
    ELSE IF code \in ObjectPrototypeKeys THEN NaN
    ELSE 0

\* computeRAF: demo + sum of weights, Math.max(0.3, Math.min(3.0, raf)),
\* rounded to 3 decimals (exact in thousandths).  Math.min/Math.max of a
\* non-number give NaN.
computeRAF(m) ==
    LET demo    == getDemographicRAF(m.age, m.gender)
        weights == Map(WeightOf, m.hcc_codes)
    IN  IF demo = NaN \/ Includes(weights, NaN) THEN NaN
        ELSE Max(300, Min(3000, demo + SumSeq(weights)))

\* computeRiskAdjRevenue(raf, memberMonths), in thousandths of a dollar
computeRiskAdjRevenue(raf, memberMonths) == raf * BASE_RATE_PMPM * memberMonths

\* member.member_months || 12
MemberMonths(m) == IF m.member_months = 0 THEN 12 ELSE m.member_months

\* computeSuspectHCCs: the single-signal dashboard heuristic
computeSuspectHCCs(m, cbm) ==
    LET memberClaims  == IF m.member_id \in DOMAIN cbm THEN cbm[m.member_id] ELSE <<>>
        rx      == SelectSeq(memberClaims, LAMBDA c : c.claim_type = "RX")
        ip      == SelectSeq(memberClaims, LAMBDA c : c.claim_type = "IP")
        rxTotal == SumSeq(Map(LAMBDA c : c.allowed_amount, rx))
        ipTotal == SumSeq(Map(LAMBDA c : c.allowed_amount, ip))
        rxCount == Len(rx)
    IN  (IF rxTotal > 2000 /\ ~Includes(m.hcc_codes, "HCC_18")
            THEN <<[code |-> "HCC_18", weight |-> 320, reason |-> "High RX spend"]>> ELSE <<>>)
     \o (IF ipTotal > 15000 /\ ~Includes(m.hcc_codes, "HCC_85")
            THEN <<[code |-> "HCC_85", weight |-> 450, reason |-> "High IP utilization"]>> ELSE <<>>)
     \o (IF rxCount >= 8 /\ ~Includes(m.hcc_codes, "HCC_19")
            THEN <<[code |-> "HCC_19", weight |-> 140, reason |-> "Multiple RX scripts"]>> ELSE <<>>)
     \o (IF m.risk_score > 75 /\ ~Includes(m.hcc_codes, "HCC_108")
            THEN <<[code |-> "HCC_108", weight |-> 380, reason |-> "Elevated risk score"]>> ELSE <<>>)
     \o (IF m.chronic_condition_flag /\ ~Includes(m.hcc_codes, "HCC_96")
            THEN <<[code |-> "HCC_96", weight |-> 290, reason |-> "Chronic flag, no COPD"]>> ELSE <<>>)

(***************************************************************************)
(* risk-adjustment-agent.js : Risk Agent                                   *)
(***************************************************************************)
HCC_CONDITIONS == [c \in HCC_CODES |->
    CASE c = "HCC_18"  -> "Diabetes"
      [] c = "HCC_85"  -> "CHF"
      [] c = "HCC_96"  -> "COPD"
      [] c = "HCC_108" -> "CKD"
      [] c = "HCC_19"  -> "Hypertension"]

getClaimsSummary(memberClaims) ==
    LET rxClaims == SelectSeq(memberClaims, LAMBDA c : c.claim_type = "RX")
        ipClaims == SelectSeq(memberClaims, LAMBDA c : c.claim_type = "IP")
        opClaims == SelectSeq(memberClaims, LAMBDA c : c.claim_type = "OP")
        rxSpend  == SumSeq(Map(LAMBDA c : c.allowed_amount, rxClaims))
        ipSpend  == SumSeq(Map(LAMBDA c : c.allowed_amount, ipClaims))
    IN  [rxSpend12m        |-> rxSpend,
         ipAdmissions      |-> Len(ipClaims),
         ipSpend           |-> ipSpend,
         opVisits          |-> Len(opClaims),
         chronicMeds       |-> Len(rxClaims) >= 6,
         multipleRx        |-> Len(rxClaims) >= 8,
         highCostProcedure |-> ipSpend > 15000
                               \/ \E i \in 1..Len(memberClaims) : memberClaims[i].allowed_amount > 10000,
         rxCount           |-> Len(rxClaims)]

\* if (cond) signals.push(text)
Signal(cond, text) == IF cond THEN <<text>> ELSE <<>>

\* const hasHCC = (code) => (member.hcc_codes || []).includes(code)
hasHCC(m, code) == Includes(m.hcc_codes, code)

\* The object an evaluator returns.  strength and completeness are in
\* hundredths; confidence = Math.round(Math.min(0.99, s * c) * 100) / 100.
Finding(code, m, signals, strength, completeness) ==
    [hcc_code   |-> code,
     condition  |-> HCC_CONDITIONS[code],
     confidence |-> RoundDiv(Min(9900, strength * completeness), 100),
     evidence   |-> signals,
     raf_uplift |-> HCC_WEIGHTS[code],
     revenue_uplift_estimate |->
         RoundDiv(HCC_WEIGHTS[code] * BASE_RATE_PMPM * MemberMonths(m), 1000)]

\* evalDiabetes without its first line, the hasHCC('HCC_18') early return
evalDiabetes_NoCodedCheck(m, summary) ==
    LET signals == Signal(summary.rxSpend12m > 2000, "High chronic RX spend (12m)")
                \o Signal(summary.chronicMeds, "Multiple chronic medication fills")
                \o Signal(m.risk_score >= 65, "Elevated risk score")
    IN  IF Len(signals) < 2 THEN <<>>
        ELSE <<Finding("HCC_18", m, signals,
                       IF Len(signals) = 2 THEN 65 ELSE 78,
                       IF summary.rxCount > 3 THEN 95 ELSE 85)>>

\* Each evaluator returns a sequence: <<>> for null, <<finding>> otherwise.
evalDiabetes(m, summary) ==
    LET signals == Signal(summary.rxSpend12m > 2000, "High chronic RX spend (12m)")
                \o Signal(summary.chronicMeds, "Multiple chronic medication fills")
                \o Signal(m.risk_score >= 65, "Elevated risk score")
    IN  IF hasHCC(m, "HCC_18") THEN <<>>
        ELSE IF Len(signals) < 2 THEN <<>>
        ELSE <<Finding("HCC_18", m, signals,
                       IF Len(signals) = 2 THEN 65 ELSE 78,
                       IF summary.rxCount > 3 THEN 95 ELSE 85)>>

\* evalCHF with the threshold off by one (signals.length < 1)
evalCHF_OneSignal(m, summary) ==
    LET signals == Signal(summary.ipAdmissions >= 1, "Inpatient admission(s) in 12m")
                \o Signal(summary.highCostProcedure, "High-cost procedure flag")
                \o Signal(summary.ipSpend > 10000, "Significant inpatient utilization")
    IN  IF hasHCC(m, "HCC_85") THEN <<>>
        ELSE IF Len(signals) < 1 THEN <<>>
        ELSE <<Finding("HCC_85", m, signals,
                       IF Len(signals) >= 3 THEN 72 ELSE 62, 92)>>

evalCHF(m, summary) ==
    LET signals == Signal(summary.ipAdmissions >= 1, "Inpatient admission(s) in 12m")
                \o Signal(summary.highCostProcedure, "High-cost procedure flag")
                \o Signal(summary.ipSpend > 10000, "Significant inpatient utilization")
    IN  IF hasHCC(m, "HCC_85") THEN <<>>
        ELSE IF Len(signals) < 2 THEN <<>>
        ELSE <<Finding("HCC_85", m, signals,
                       IF Len(signals) >= 3 THEN 72 ELSE 62, 92)>>

evalCOPD(m, summary) ==
    LET signals == Signal(m.chronic_condition_flag, "Chronic condition flag on file")
                \o Signal(summary.rxCount >= 8,
                          "High prescription count (suggests ongoing management)")
                \o Signal(summary.opVisits >= 6, "Frequent outpatient visits")
    IN  IF hasHCC(m, "HCC_96") THEN <<>>
        ELSE IF Len(signals) < 2 THEN <<>>
        ELSE <<Finding("HCC_96", m, signals, 58 + (Len(signals) - 2) * 8, 90)>>

evalCKD(m, summary) ==
    LET signals == Signal(m.risk_score >= 75, "Elevated risk score")
                \o Signal(summary.chronicMeds, "Chronic medication utilization pattern")
                \o Signal(summary.rxSpend12m > 1500, "Above-average RX spend")
    IN  IF hasHCC(m, "HCC_108") THEN <<>>
        ELSE IF Len(signals) < 2 THEN <<>>
        ELSE <<Finding("HCC_108", m, signals, 60 + (Len(signals) - 2) * 7, 88)>>

\* evalHypertension asking for all three signals (signals.length < 3)
evalHypertension_ThreeSignals(m, summary) ==
    LET signals == Signal(summary.multipleRx, "Multiple prescription fills")
                \o Signal(summary.opVisits >= 4, "Repeated outpatient visits")
                \o Signal(summary.chronicMeds, "Chronic medication pattern")
    IN  IF hasHCC(m, "HCC_19") THEN <<>>
        ELSE IF Len(signals) < 3 THEN <<>>
        ELSE <<Finding("HCC_19", m, signals, 55 + (Len(signals) - 2) * 10, 90)>>

evalHypertension(m, summary) ==
    LET signals == Signal(summary.multipleRx, "Multiple prescription fills")
                \o Signal(summary.opVisits >= 4, "Repeated outpatient visits")
                \o Signal(summary.chronicMeds, "Chronic medication pattern")
    IN  IF hasHCC(m, "HCC_19") THEN <<>>
        ELSE IF Len(signals) < 2 THEN <<>>
        ELSE <<Finding("HCC_19", m, signals, 55 + (Len(signals) - 2) * 10, 90)>>

\* claimsByMember[member.member_id] || []
ClaimsOf(cbm, id) == IF id \in DOMAIN cbm THEN cbm[id] ELSE <<>>

COMMENTARY_REVIEW ==
    "Member shows utilization patterns consistent with unmanaged chronic disease. Recommend coding review."
COMMENTARY_INSUFFICIENT ==
    "Elevated risk score with moderate utilization. No sufficient evidence for suspect conditions at this time."

runAgent(m, cbm) ==
    Let(ClaimsOf(cbm, m.member_id), LAMBDA memberClaims :
    Let(getClaimsSummary(memberClaims), LAMBDA summary :
    Let(evalDiabetes(m, summary)
           \o evalCHF(m, summary)
           \o evalCOPD(m, summary)
           \o evalCKD(m, summary)
           \o evalHypertension(m, summary), LAMBDA suspect_hccs :
        [member_id    |-> m.member_id,
         suspect_hccs |-> suspect_hccs,
         overall_commentary |->
             IF Len(suspect_hccs) > 0 THEN COMMENTARY_REVIEW
             ELSE IF m.risk_score > 70 /\ Len(memberClaims) > 5 THEN COMMENTARY_INSUFFICIENT
             ELSE "null"])))

(***************************************************************************)
(* finance-impact-agent.js : Finance Impact Agent                          *)
(* Money in its output is in cents (rounded to 2 decimals by the code),    *)
(* MLRs in thousandths (rounded to 3 decimals by the code).                *)
(***************************************************************************)
PLAN_IMPACT_HIGH   == 5000
PLAN_IMPACT_MEDIUM == 2000

\* RevenueOf without the finding's own estimate
RevenueOf_IgnoresEstimate(h, member_months) ==
    h.raf_uplift * BASE_RATE_PMPM * member_months

\* h.revenue_uplift_estimate || h.raf_uplift * baseRate * member_months,
\* in thousandths of a dollar
RevenueOf(h, member_months) ==
    IF h.revenue_uplift_estimate # 0 THEN h.revenue_uplift_estimate * 1000
    ELSE h.raf_uplift * BASE_RATE_PMPM * member_months

\* A quotient n / d of two amounts, kept exactly as the pair <<n, d>> in
\* lowest terms, d > 0
RECURSIVE GCD(_, _)
GCD(a, b) ==
    CHOOSE r \in {IF y = 0 THEN x ELSE GCD(y, x % y) : x \in {a}, y \in {b}} : TRUE

Ratio(n, d) ==
    CHOOSE r \in {<<x \div GCD(x, y), y \div GCD(x, y)>> : x \in {n}, y \in {d}} : TRUE

\* <<whole part, remainder>> of k * x for a quotient x >= 0 and k a power of
\* ten, digit by digit so that no intermediate product leaves the integer
\* range
RECURSIVE Scaled(_, _)
Scaled(x, k) ==
    CHOOSE r \in
        { IF j = 1 THEN <<v[1] \div v[2], v[1] % v[2]>>
          ELSE CHOOSE t \in { <<10 * s[1] + (10 * s[2]) \div v[2], (10 * s[2]) % v[2]>> :
                              s \in {Scaled(v, j \div 10)} } : TRUE :
          v \in {x}, j \in {k} } : TRUE

\* Math.round(x * k) for a quotient x >= 0
RoundScaled(x, k) ==
    CHOOSE r \in { s[1] + (IF 2 * s[2] >= v[2] THEN 1 ELSE 0) :
                   v \in {x}, s \in {Scaled(x, k)} } : TRUE

\* The sign of p/q - s/t for p, s >= 0 and q, t > 0, by Euclid's steps
\* (no products)
RECURSIVE CmpFrac(_, _, _, _)
CmpFrac(p, q, s, t) ==
    CHOOSE r \in
        { IF a \div b # c \div d THEN (IF a \div b > c \div d THEN 1 ELSE 0 - 1)
          ELSE IF a % b = 0 \/ c % d = 0
               THEN (IF a % b = c % d THEN 0 ELSE IF a % b > 0 THEN 1 ELSE 0 - 1)
          ELSE CmpFrac(d, c % d, b, a % b) :
          a \in {p}, b \in {q}, c \in {s}, d \in {t} } : TRUE

\* Math.round((x - y) * k) for quotients x, y >= 0: the whole parts of k * x
\* and k * y differ by wx - wy, and the fractional parts rx/dx - ry/dy add
\* 1 when they differ by at least 1/2, -1 when by less than -1/2
RoundScaledDiff(x, y, k) ==
    CHOOSE r \in
        { LET up   == CmpFrac(sx[2], vx[2], 2 * sy[2] + vy[2], 2 * vy[2]) >= 0
              down == CmpFrac(sy[2], vy[2], 2 * sx[2] + vx[2], 2 * vx[2]) > 0
          IN  (sx[1] - sy[1]) + (IF up THEN 1 ELSE IF down THEN 0 - 1 ELSE 0) :
          vx \in {x}, vy \in {y}, sx \in {Scaled(x, k)}, sy \in {Scaled(y, k)} } : TRUE

\* runFinanceAgent with 0.82 instead of rawMLR where adjustedPremium <= 0
runFinanceAgent_NoFallback(riskOut, context) ==
    Let(riskOut.suspect_hccs, LAMBDA hccs :
    Let(SumSeq(Map(LAMBDA h : RevenueOf(h, context.member_months), hccs)), LAMBDA uplift :
    LET totalRafUplift == SumSeq(Map(LAMBDA h : h.raf_uplift, hccs))
        premium == context.premium * 1000
        cost    == context.claims_cost * 1000
        adjustedPremium == premium + uplift
        rawMLR      == IF premium > 0 THEN Ratio(cost, premium) ELSE <<0, 1>>
        adjustedMLR == IF adjustedPremium > 0 THEN Ratio(cost, adjustedPremium) ELSE <<82, 100>>
    IN  [member_id |-> riskOut.member_id,
         financial_impact |->
            [estimated_revenue_uplift |-> RoundDiv(uplift, 10),
             total_raf_uplift |-> totalRafUplift,
             mlr_improvement_bps |-> RoundScaledDiff(adjustedMLR, rawMLR, 10000),
             adjusted_mlr |-> RoundScaled(adjustedMLR, 1000),
             raw_mlr      |-> RoundScaled(rawMLR, 1000),
             plan_level_impact |->
                 IF uplift >= PLAN_IMPACT_HIGH * 1000 THEN "High"
                 ELSE IF uplift >= PLAN_IMPACT_MEDIUM * 1000 THEN "Medium"
                 ELSE "Low"]]))

\* context = {plan_type, member_months, claims_cost, premium, current_raf}
runFinanceAgent(riskOut, context) ==
    Let(riskOut.suspect_hccs, LAMBDA hccs :
    \* estimated_revenue_uplift, in thousandths of a dollar
    Let(SumSeq(Map(LAMBDA h : RevenueOf(h, context.member_months), hccs)), LAMBDA uplift :
    LET totalRafUplift == SumSeq(Map(LAMBDA h : h.raf_uplift, hccs))
        premium == context.premium * 1000
        cost    == context.claims_cost * 1000
        adjustedPremium == premium + uplift
        rawMLR      == IF premium > 0 THEN Ratio(cost, premium) ELSE <<0, 1>>
        adjustedMLR == IF adjustedPremium > 0 THEN Ratio(cost, adjustedPremium) ELSE rawMLR
    IN  [member_id |-> riskOut.member_id,
         financial_impact |->
            [estimated_revenue_uplift |-> RoundDiv(uplift, 10),
             total_raf_uplift |-> totalRafUplift,
             mlr_improvement_bps |-> RoundScaledDiff(adjustedMLR, rawMLR, 10000),
             adjusted_mlr |-> RoundScaled(adjustedMLR, 1000),
             raw_mlr      |-> RoundScaled(rawMLR, 1000),
             plan_level_impact |->
                 IF uplift >= PLAN_IMPACT_HIGH * 1000 THEN "High"
                 ELSE IF uplift >= PLAN_IMPACT_MEDIUM * 1000 THEN "Medium"
                 ELSE "Low"]]))

(***************************************************************************)
(* compliance-agent.js : Compliance Agent                                  *)
(* A text is the sequence of its tokens: the maximal runs of word          *)
(* characters [A-Za-z0-9_] and the runs of other characters between them,  *)
(* so that \b in a pattern is a token boundary.                            *)
(***************************************************************************)
\* The tokens of the program's string literals.
Tokens(s) ==
    CASE s = "High chronic RX spend (12m)" ->
            <<"High", " ", "chronic", " ", "RX", " ", "spend", " (", "12m", ")">>
      [] s = "Multiple chronic medication fills" ->
            <<"Multiple", " ", "chronic", " ", "medication", " ", "fills">>
      [] s = "Elevated risk score" ->
            <<"Elevated", " ", "risk", " ", "score">>
      [] s = "Inpatient admission(s) in 12m" ->
            <<"Inpatient", " ", "admission", "(", "s", ") ", "in", " ", "12m">>
      [] s = "High-cost procedure flag" ->
            <<"High", "-", "cost", " ", "procedure", " ", "flag">>
      [] s = "Significant inpatient utilization" ->
            <<"Significant", " ", "inpatient", " ", "utilization">>
      [] s = "Chronic condition flag on file" ->
            <<"Chronic", " ", "condition", " ", "flag", " ", "on", " ", "file">>
      [] s = "High prescription count (suggests ongoing management)" ->
            <<"High", " ", "prescription", " ", "count", " (", "suggests", " ", "ongoing", " ", "management", ")">>
      [] s = "Frequent outpatient visits" ->
            <<"Frequent", " ", "outpatient", " ", "visits">>
      [] s = "Chronic medication utilization pattern" ->
            <<"Chronic", " ", "medication", " ", "utilization", " ", "pattern">>
      [] s = "Above-average RX spend" ->
            <<"Above", "-", "average", " ", "RX", " ", "spend">>
      [] s = "Multiple prescription fills" ->
            <<"Multiple", " ", "prescription", " ", "fills">>
      [] s = "Repeated outpatient visits" ->
            <<"Repeated", " ", "outpatient", " ", "visits">>
      [] s = "Chronic medication pattern" ->
            <<"Chronic", " ", "medication", " ", "pattern">>
      [] s = "" ->
            <<>>
      [] s = "confirmed diabetes" ->
            <<"confirmed", " ", "diabetes">>
      [] s = "Member has" ->
            <<"Member", " ", "has">>
      [] s = "E11.9 on claim" ->
            <<"E11", ".", "9", " ", "on", " ", "claim">>
      [] s = "Diagnosed CHF" ->
            <<"Diagnosed", " ", "CHF">>
      [] s = "Member definitively needs review." ->
            <<"Member", " ", "definitively", " ", "needs", " ", "review", ".">>
      [] s = "Diabetes" ->
            <<"Diabetes">>
      [] s = "CHF" ->
            <<"CHF">>
      [] s = "COPD" ->
            <<"COPD">>
      [] s = "CKD" ->
            <<"CKD">>
      [] s = "Hypertension" ->
            <<"Hypertension">>
      [] s = "Member shows utilization patterns consistent with unmanaged chronic disease. Recommend coding review." ->
            <<"Member", " ", "shows", " ", "utilization", " ", "patterns", " ", "consistent", " ", "with", " ", "unmanaged", " ", "chronic", " ", "disease", ". ", "Recommend", " ", "coding", " ", "review", ".">>
      [] s = "Elevated risk score with moderate utilization. No sufficient evidence for suspect conditions at this time." ->
            <<"Elevated", " ", "risk", " ", "score", " ", "with", " ", "moderate", " ", "utilization", ". ", "No", " ", "sufficient", " ", "evidence", " ", "for", " ", "suspect", " ", "conditions", " ", "at", " ", "this", " ", "time", ".">>

\* Array.prototype.join(' ') of texts, as tokens
JoinTokens(texts) ==
    Let(texts, LAMBDA v :
        Flatten([i \in 1..Len(v) |-> IF i = 1 THEN Tokens(v[i])
                                     ELSE <<" ">> \o Tokens(v[i])]))

\* Lower-casing (the /i flag) of the words the patterns look for, in the
\* spellings the texts use; other words are lower-cased to something no
\* pattern looks for and are left as they are.
ToLower(w) ==
    CASE w \in {"Diabetes", "DIABETES"}         -> "diabetes"
      [] w \in {"CHF", "Chf"}                   -> "chf"
      [] w \in {"COPD", "Copd"}                 -> "copd"
      [] w \in {"CKD", "Ckd"}                   -> "ckd"
      [] w \in {"Hypertension", "HYPERTENSION"} -> "hypertension"
      [] w \in {"Has", "HAS"}                   -> "has"
      [] w \in {"Confirmed", "CONFIRMED"}       -> "confirmed"
      [] w \in {"Definitively"}                 -> "definitively"
      [] w \in {"Diagnosed", "DIAGNOSED"}       -> "diagnosed"
      [] w \in {"Diagnosis", "DIAGNOSIS"}       -> "diagnosis"
      [] w \in {"Diagnosing"}                   -> "diagnosing"
      [] w \in {"ICD", "Icd"}                   -> "icd"
      [] w \in {"ICD10", "Icd10"}               -> "icd10"
      [] OTHER -> w

\* The words of the texts that match [A-Z][0-9]{2}, and those that start
\* with a character of [0-9X].
CodeHeadWords == {"E11", "I50", "J44", "N18", "I10"}
CodeTailWords == {"9", "0", "X", "12m", "10"}

\* DIAGNOSTIC_PATTERNS.some((p) => p.test(text)) on the tokens t of a text
MatchesDiagnosticPattern(text) ==
    \E t \in {text} : \E i \in 1..Len(t) :
        LET w == ToLower(t[i]) IN
        \* /\bdiagnos(ed|is|ing)\b/i
        \/ w \in {"diagnosed", "diagnosis", "diagnosing"}
        \* /\bhas\s+(diabetes|chf|copd|ckd|hypertension)\b/i
        \/ /\ w = "has"
           /\ \E j \in (i + 2)..Len(t) :
                 /\ \A k \in (i + 1)..(j - 1) : t[k] = " "
                 /\ ToLower(t[j]) \in {"diabetes", "chf", "copd", "ckd", "hypertension"}
        \* /\bconfirmed\b/i and /\bdefinitively\b/i
        \/ w \in {"confirmed", "definitively"}
        \* /\bICD-?10\b/i
        \/ w = "icd10"
        \/ /\ w = "icd" /\ i + 2 <= Len(t) /\ t[i + 1] = "-" /\ t[i + 2] = "10"
        \* /\b[A-Z][0-9]{2}\.[0-9X]+/
        \/ /\ t[i] \in CodeHeadWords /\ i + 2 <= Len(t)
           /\ t[i + 1] = "." /\ t[i + 2] \in CodeTailWords

\* hasDiagnosticLanguage with the hedged verb "suggests" counted as diagnostic
hasDiagnosticLanguage_Suggests(text) ==
    \E t \in {text} : t # <<>> /\ (MatchesDiagnosticPattern(t) \/ \E i \in 1..Len(t) : t[i] = "suggests")

\* hasDiagnosticLanguage(text): false for a missing or empty text
hasDiagnosticLanguage(text) ==
    \E t \in {text} : t # <<>> /\ MatchesDiagnosticPattern(t)

\* h.condition || h.hcc_code
LabelOf(h) == IF h.condition # "" THEN h.condition ELSE h.hcc_code

\* checkEvidence without the test of overall_commentary
checkEvidence_NoCommentary(riskOut) ==
    LET IssuesOf(h) ==
            (IF Len(h.evidence) < 2
                THEN <<<<"Insufficient evidence for", LabelOf(h)>>>> ELSE <<>>)
         \o (IF hasDiagnosticLanguage(JoinTokens(h.evidence \o <<h.condition>>))
                THEN <<<<"Diagnostic language detected for", LabelOf(h)>>>> ELSE <<>>)
    IN  Flatten(Map(IssuesOf, riskOut.suspect_hccs))

checkEvidence(riskOut) ==
    LET IssuesOf(h) ==
            (IF Len(h.evidence) < 2
                THEN <<<<"Insufficient evidence for", LabelOf(h)>>>> ELSE <<>>)
         \o (IF hasDiagnosticLanguage(JoinTokens(h.evidence \o <<h.condition>>))
                THEN <<<<"Diagnostic language detected for", LabelOf(h)>>>> ELSE <<>>)
    IN  Flatten(Map(IssuesOf, riskOut.suspect_hccs))
     \o (IF riskOut.overall_commentary # "null"
            /\ hasDiagnosticLanguage(Tokens(riskOut.overall_commentary))
         THEN <<<<"Diagnostic language in commentary">>>> ELSE <<>>)

\* CONFIRMATION_NOTES without the third note
CONFIRMATION_NOTES_Two ==
    << <<"Language compliant">>, <<"Evidence thresholds met">> >>

CONFIRMATION_NOTES ==
    << <<"Language compliant">>, <<"Evidence thresholds met">>,
       <<"No diagnostic claims detected">> >>

\* runComplianceAgent with the uplift tests not asking for findings
runComplianceAgent_AnyUplift(riskOut, financeOut) ==
    Let(checkEvidence(riskOut), LAMBDA evidenceIssues :
    LET revenueUplift  == IF financeOut = <<>> THEN 0
                          ELSE financeOut[1].financial_impact.estimated_revenue_uplift
        level0 == IF Len(evidenceIssues) > 0 THEN "MEDIUM" ELSE "LOW"
        level1 == IF revenueUplift > 10000 * 100 THEN "MEDIUM" ELSE level0
        level2 == IF revenueUplift > 25000 * 100 THEN "HIGH" ELSE level1
    IN  [member_id |-> riskOut.member_id,
         compliance_status |-> IF Len(evidenceIssues) > 0 THEN "REVIEW_REQUIRED"
                               ELSE "APPROVED",
         notes |-> IF Len(evidenceIssues) > 0 THEN evidenceIssues
                   ELSE CONFIRMATION_NOTES,
         risk_level |-> level2])

\* financeOut: <<>> for the empty object {}, <<output>> for a finance output.
\* The revenue uplift is in cents.
runComplianceAgent(riskOut, financeOut) ==
    Let(checkEvidence(riskOut), LAMBDA evidenceIssues :
    LET hasSuspects    == Len(riskOut.suspect_hccs) > 0
        revenueUplift  == IF financeOut = <<>> THEN 0
                          ELSE financeOut[1].financial_impact.estimated_revenue_uplift
        level0 == IF Len(evidenceIssues) > 0 THEN "MEDIUM" ELSE "LOW"
        level1 == IF hasSuspects /\ revenueUplift > 10000 * 100 THEN "MEDIUM" ELSE level0
        level2 == IF hasSuspects /\ revenueUplift > 25000 * 100 THEN "HIGH" ELSE level1
    IN  [member_id |-> riskOut.member_id,
         compliance_status |-> IF Len(evidenceIssues) > 0 THEN "REVIEW_REQUIRED"
                               ELSE "APPROVED",
         notes |-> IF Len(evidenceIssues) > 0 THEN evidenceIssues
                   ELSE CONFIRMATION_NOTES,
         risk_level |-> level2])

(***************************************************************************)
(* orchestrator.js : Orchestrator                                          *)
(***************************************************************************)
\* normalizeSuspectHCCs with the condition label under the key hcc
normalizeSuspectHCCs_Label(suspect_hccs) ==
    Map(LAMBDA h : [hcc        |-> h.condition,
                    condition  |-> h.condition,
                    confidence |-> h.confidence,
                    evidence   |-> h.evidence,
                    raf_uplift |-> h.raf_uplift,
                    revenue_uplift_estimate |-> h.revenue_uplift_estimate],
        suspect_hccs)

\* Risk Agent findings under the public key "hcc": hcc: h.hcc_code || h.hcc
normalizeSuspectHCCs(suspect_hccs) ==
    Map(LAMBDA h : [hcc        |-> h.hcc_code,
                    condition  |-> h.condition,
                    confidence |-> h.confidence,
                    evidence   |-> h.evidence,
                    raf_uplift |-> h.raf_uplift,
                    revenue_uplift_estimate |-> h.revenue_uplift_estimate],
        suspect_hccs)

\* Finance runs whatever the Risk Agent found
NeedsFinance_Always(riskOut) == TRUE

\* if (riskOutput.suspect_hccs.length > 0): the Finance Agent is called
NeedsFinance(riskOut) == Len(riskOut.suspect_hccs) > 0

\* The context object runOrchestrator passes to runFinanceAgent
FinanceContext(m, memberClaims) ==
    [plan_type     |-> m.plan_type,
     member_months |-> MemberMonths(m),
     claims_cost   |-> SumSeq(Map(LAMBDA c : c.allowed_amount, memberClaims)),
     premium       |-> 15000,
     current_raf   |-> computeRAF(m)]

\* Math.max written for Math.min
capConfidence_Max(riskOut, complianceOut) ==
    IF complianceOut.compliance_status = "REVIEW_REQUIRED"
       /\ Len(riskOut.suspect_hccs) > 0
    THEN [riskOut EXCEPT !.suspect_hccs =
             Map(LAMBDA h : [h EXCEPT !.confidence = Max(h.confidence, 85)],
                 riskOut.suspect_hccs)]
    ELSE riskOut

\* The post-processing of riskOutput after the Compliance Agent returned:
\* confidence: Math.min(h.confidence, 0.85) under REVIEW_REQUIRED
capConfidence(riskOut, complianceOut) ==
    IF complianceOut.compliance_status = "REVIEW_REQUIRED"
       /\ Len(riskOut.suspect_hccs) > 0
    THEN [riskOut EXCEPT !.suspect_hccs =
             Map(LAMBDA h : [h EXCEPT !.confidence = Min(h.confidence, 85)],
                 riskOut.suspect_hccs)]
    ELSE riskOut

\* executive_summary and the returned object.  financeOut is <<>> for null.
\* The summary is <<>> for null, <<"uplift", revenue>> for the templated
\* sentence naming the revenue, <<commentary>> for the Risk Agent's own.
synthesize(m, riskOut, financeOut, complianceOut) ==
    [member_id    |-> m.member_id,
     suspect_hccs |-> normalizeSuspectHCCs(riskOut.suspect_hccs),
     financial_impact |-> IF financeOut = <<>> THEN <<>>
                          ELSE <<financeOut[1].financial_impact>>,
     compliance   |-> complianceOut,
     executive_summary |->
        IF Len(riskOut.suspect_hccs) > 0 /\ financeOut # <<>>
        THEN <<"uplift", financeOut[1].financial_impact.estimated_revenue_uplift>>
        ELSE IF riskOut.overall_commentary # "null"
        THEN <<riskOut.overall_commentary>>
        ELSE <<>>]

\* runOrchestrator(member, claimsByMember, claims) as one call
runOrchestrator(m, cbm, memberClaims) ==
    Let(runAgent(m, cbm), LAMBDA riskOut :
    Let(IF NeedsFinance(riskOut)
        THEN <<runFinanceAgent(riskOut, Let(FinanceContext(m, memberClaims), LAMBDA c : c))>>
        ELSE <<>>, LAMBDA finOut :
    Let(runComplianceAgent(riskOut, finOut), LAMBDA compOut :
    Let(capConfidence(riskOut, compOut), LAMBDA capped :
        synthesize(m, capped, finOut, compOut)))))

(***************************************************************************)
(* Inputs: members and claim lists the functions are evaluated on          *)
(***************************************************************************)
MaxRx == 8        \* most RX claims of a member
MaxIp == 2        \* most IP claims of a member
MaxOp == 6        \* most OP claims of a member

RxAmounts  == {100, 300, 1000, 11000}
IpAmounts  == {8000}
OpAmounts  == {350}
RiskScores == {60, 70, 80}
MonthsChoices == {0, 6}          \* 0: member_months absent (defaults to 12)

\* The five codes in the order the data generator pushes them.
CodeOrder == <<"HCC_19", "HCC_18", "HCC_85", "HCC_96", "HCC_108">>

\* hcc_codes of an input member: none, one code, or all five.
CodedChoices == {<<>>, CodeOrder} \cup {<<c>> : c \in HCC_CODES}

Claim(id, mid, date, type, amount) ==
    [claim_id |-> id, member_id |-> mid, service_date |-> date,
     claim_type |-> type, allowed_amount |-> amount]

\* n claims of one type and amount for member mid, claim ids from base + 1
ClaimRun(mid, type, n, amount, base) ==
    [i \in 1..n |-> Claim(base + i, mid, i, type, amount)]

ClaimLists(mid) ==
    { ClaimRun(mid, "RX", nrx, arx, 0)
        \o ClaimRun(mid, "IP", nip, aip, nrx)
        \o ClaimRun(mid, "OP", nop, aop, nrx + nip) :
        nrx \in 0..MaxRx, arx \in RxAmounts,
        nip \in 0..MaxIp, aip \in IpAmounts,
        nop \in 0..MaxOp, aop \in OpAmounts }

\* The index built from one member's claims: no key when there are none.
IndexOf(mid, memberClaims) == IF memberClaims = <<>> THEN <<>> ELSE (mid :> memberClaims)

AgentMembers ==
    [member_id : {"M1"}, age : {70}, gender : {"F"}, state : {"TX"},
     plan_type : {"Bronze"}, risk_score : RiskScores,
     chronic_condition_flag : BOOLEAN, hcc_codes : CodedChoices,
     member_months : MonthsChoices]

(***************************************************************************)
(* Evaluation of runAgent on every input member and claims index           *)
(***************************************************************************)
InitAgent ==
    /\ member \in AgentMembers
    /\ claimsByMember \in {IndexOf("M1", cl) : cl \in ClaimLists("M1")}
    /\ call = [fn |-> "runAgent", done |-> FALSE]
    /\ result = "none"
    /\ OrchIdle
    /\ ServerIdle

CallRunAgent ==
    /\ call = [fn |-> "runAgent", done |-> FALSE]
    /\ result' = runAgent(member, claimsByMember)
    /\ call' = [call EXCEPT !.done = TRUE]
    /\ UNCHANGED <<member, claimsByMember, orchVars, serverVars>>

NextAgent == CallRunAgent

SpecAgent == InitAgent /\ [][NextAgent]_vars

(***************************************************************************)
(* Claims about runAgent                                                   *)
(***************************************************************************)
AgentReturned == call = [fn |-> "runAgent", done |-> TRUE]

Count(bools) == Cardinality({i \in 1..Len(bools) : bools[i]})

\* How many of a condition's three signals the input shows.
SignalCount(code, m, cbm) ==
    LET memberClaims == ClaimsOf(cbm, m.member_id)
        rx == {i \in 1..Len(memberClaims) : memberClaims[i].claim_type = "RX"}
        ip == {i \in 1..Len(memberClaims) : memberClaims[i].claim_type = "IP"}
        op == {i \in 1..Len(memberClaims) : memberClaims[i].claim_type = "OP"}
        rxSpend == SumSeq([i \in 1..Len(memberClaims) |->
                      IF i \in rx THEN memberClaims[i].allowed_amount ELSE 0])
        ipSpend == SumSeq([i \in 1..Len(memberClaims) |->
                      IF i \in ip THEN memberClaims[i].allowed_amount ELSE 0])
        big == \E i \in 1..Len(memberClaims) : memberClaims[i].allowed_amount > 10000
        nrx == Cardinality(rx)
    IN  CASE code = "HCC_18"  -> Count(<<rxSpend > 2000, nrx >= 6, m.risk_score >= 65>>)
          [] code = "HCC_85"  -> Count(<<Cardinality(ip) >= 1, ipSpend > 15000 \/ big,
                                         ipSpend > 10000>>)
          [] code = "HCC_96"  -> Count(<<m.chronic_condition_flag, nrx >= 8,
                                         Cardinality(op) >= 6>>)
          [] code = "HCC_108" -> Count(<<m.risk_score >= 75, nrx >= 6, rxSpend > 1500>>)
          [] code = "HCC_19"  -> Count(<<nrx >= 8, Cardinality(op) >= 4, nrx >= 6>>)

FindingsFor(out, code) ==
    {i \in 1..Len(out.suspect_hccs) : out.suspect_hccs[i].hcc_code = code}

\* C4: every finding runAgent returns has a confidence c with 0 <= c < 1 and
\* an evidence list of at least 2 signal descriptions, and a condition whose
\* evaluator sees fewer than 2 signals gets no finding.
C4_FindingsWellFormed ==
    AgentReturned =>
        /\ \A i \in 1..Len(result.suspect_hccs) :
              LET f == result.suspect_hccs[i]
              IN  /\ 0 <= f.confidence /\ f.confidence < 100
                  /\ Len(f.evidence) >= 2
                  /\ Len(f.evidence) = SignalCount(f.hcc_code, member, claimsByMember)
        /\ \A code \in HCC_CODES :
              SignalCount(code, member, claimsByMember) < 2
                  => FindingsFor(result, code) = {}

\* C4 witness: runAgent returned a finding with exactly 2 signals while
\* another, uncoded condition with exactly 1 signal got none.
C4_Witness ==
    /\ AgentReturned
    /\ \E i \in 1..Len(result.suspect_hccs) : Len(result.suspect_hccs[i].evidence) = 2
    /\ \E code \in HCC_CODES :
          /\ ~Includes(member.hcc_codes, code)
          /\ SignalCount(code, member, claimsByMember) = 1
          /\ FindingsFor(result, code) = {}

\* C5: runAgent returns at most one finding per condition code and never a
\* finding for a code in the member's hcc_codes, whatever the signals.
C5_OnePerCodeNeverCoded ==
    AgentReturned =>
        /\ \A code \in HCC_CODES : Cardinality(FindingsFor(result, code)) <= 1
        /\ \A i \in 1..Len(result.suspect_hccs) :
              /\ result.suspect_hccs[i].hcc_code \in HCC_CODES
              /\ ~Includes(member.hcc_codes, result.suspect_hccs[i].hcc_code)

\* C5 witness: a member coded for Diabetes whose claims show all three
\* Diabetes signals gets findings, but none for HCC_18.
C5_Witness ==
    /\ AgentReturned
    /\ member.hcc_codes = <<"HCC_18">>
    /\ SignalCount("HCC_18", member, claimsByMember) = 3
    /\ FindingsFor(result, "HCC_18") = {}
    /\ Len(result.suspect_hccs) >= 1

(***************************************************************************)
(* Evaluation of computeRAF on members of any age, gender and code list    *)
(***************************************************************************)
MaxCodes == 4     \* longest hcc_codes list of a computeRAF input

\* Ages on both sides of every band limit.
Ages == {34, 35, 44, 45, 54, 55, 64, 65}

\* M, F, a value the table does not know, and a value every object inherits.
Genders == {"M", "F", "X", "constructor"}

\* The five codes, an unknown code and a name every object inherits.
RafCodeOrder == CodeOrder \o <<"HCC_999", "constructor">>

\* hcc_codes of a computeRAF input: every list of at most MaxCodes codes,
\* repeats allowed, up to the order of its elements (the sum ignores order).
RafCodeLists ==
    LET n     == Len(RafCodeOrder)
        lists == UNION {[1..k -> 1..n] : k \in 0..MaxCodes}
    IN  { [i \in DOMAIN f |-> RafCodeOrder[f[i]]] :
            f \in {g \in lists : \A i \in DOMAIN g : i > 1 => g[i - 1] <= g[i]} }

RafMembers ==
    [member_id : {"M1"}, age : Ages, gender : Genders, state : {"TX"},
     plan_type : {"Bronze"}, risk_score : {60},
     chronic_condition_flag : {FALSE}, hcc_codes : RafCodeLists,
     member_months : {0}]

InitRAF ==
    /\ member \in RafMembers
    /\ claimsByMember = <<>>
    /\ call = [fn |-> "computeRAF", done |-> FALSE]
    /\ result = "none"
    /\ OrchIdle
    /\ ServerIdle

CallComputeRAF ==
    /\ call = [fn |-> "computeRAF", done |-> FALSE]
    /\ result' = computeRAF(member)
    /\ call' = [call EXCEPT !.done = TRUE]
    /\ UNCHANGED <<member, claimsByMember, orchVars, serverVars>>

NextRAF == CallComputeRAF

SpecRAF == InitRAF /\ [][NextRAF]_vars

RAFReturned == call = [fn |-> "computeRAF", done |-> TRUE]

\* The demographic factor of the five bands, 0.5 for any other gender.
DemographicFactor(age, gender) ==
    IF gender \notin {"M", "F"} THEN 500
    ELSE LET f == gender = "F"
         IN  IF age < 35 THEN (IF f THEN 420 ELSE 350)
             ELSE IF age < 45 THEN (IF f THEN 520 ELSE 450)
             ELSE IF age < 55 THEN (IF f THEN 680 ELSE 620)
             ELSE IF age < 65 THEN (IF f THEN 920 ELSE 880)
             ELSE (IF f THEN 1220 ELSE 1150)

\* The fixed weight of a coded condition, 0 for any other code.
ConditionWeight(code) ==
    CASE code = "HCC_18"  -> 320
      [] code = "HCC_85"  -> 450
      [] code = "HCC_96"  -> 290
      [] code = "HCC_108" -> 380
      [] code = "HCC_19"  -> 140
      [] OTHER -> 0

\* C6: for every member (any age, any gender value, any coded conditions,
\* unknown ones included) computeRAF returns a value in [0.3, 3.0], equal to
\* the demographic factor plus the coded conditions' weights, clamped.
C6_RAFInRange ==
    RAFReturned =>
        /\ 300 <= result /\ result <= 3000
        /\ LET raw == DemographicFactor(member.age, member.gender)
                      + SumSeq(Map(ConditionWeight, member.hcc_codes))
           IN  result = (IF raw < 300 THEN 300 ELSE IF raw > 3000 THEN 3000 ELSE raw)

(***************************************************************************)
(* One run of runOrchestrator, statement by statement                      *)
(***************************************************************************)
InitOrchestrator ==
    /\ member \in AgentMembers
    /\ claimsByMember \in {IndexOf("M1", cl) : cl \in ClaimLists("M1")}
    /\ call = [fn |-> "runOrchestrator", done |-> FALSE]
    /\ result = "none"
    /\ pc = "INIT"
    /\ riskOutput = <<>>
    /\ financeOutput = <<>>
    /\ complianceOutput = <<>>
    /\ stages = <<>>
    /\ ServerIdle

\* const riskOutput = runAgent(member, claimsByMember)
RunRiskAgent ==
    /\ pc = "INIT"
    /\ riskOutput' = runAgent(member, claimsByMember)
    /\ pc' = "RISK_EVALUATED"
    /\ stages' = Append(stages, "risk")
    /\ UNCHANGED <<fnVars, financeOutput, complianceOutput, serverVars>>

\* financeOutput = runFinanceAgent(riskOutput, {...}) inside the if
RunFinanceAgent ==
    /\ pc = "RISK_EVALUATED"
    /\ NeedsFinance(riskOutput)
    /\ financeOutput' = <<runFinanceAgent(riskOutput,
                             FinanceContext(member, ClaimsOf(claimsByMember, member.member_id)))>>
    /\ pc' = "FINANCE_EVALUATED"
    /\ stages' = Append(stages, "finance")
    /\ UNCHANGED <<fnVars, riskOutput, complianceOutput, serverVars>>

\* Compliance does not wait for Finance
ComplianceReady_SkipsFinance(stage, riskOut) == stage = "RISK_EVALUATED"

\* Control reaches the call of runComplianceAgent after the if statement:
\* either its body was skipped or the Finance Agent has returned
ComplianceReady(stage, riskOut) ==
    \/ stage = "RISK_EVALUATED" /\ ~NeedsFinance(riskOut)
    \/ stage = "FINANCE_EVALUATED"

\* const complianceOutput = runComplianceAgent(riskOutput, financeOutput || {})
RunComplianceAgent ==
    /\ ComplianceReady(pc, riskOutput)
    /\ complianceOutput' = runComplianceAgent(riskOutput, financeOutput)
    /\ pc' = "COMPLIANCE_EVALUATED"
    /\ stages' = Append(stages, "compliance")
    /\ UNCHANGED <<fnVars, riskOutput, financeOutput, serverVars>>

\* the if (REVIEW_REQUIRED && findings) { riskOutput.suspect_hccs = ... } statement
CapConfidence ==
    /\ pc = "COMPLIANCE_EVALUATED"
    /\ riskOutput' = capConfidence(riskOutput, complianceOutput)
    /\ pc' = "CAPPED"
    /\ stages' = Append(stages, "cap")
    /\ UNCHANGED <<fnVars, financeOutput, complianceOutput, serverVars>>

\* executive_summary and the return statement
Synthesize ==
    /\ pc = "CAPPED"
    /\ result' = synthesize(member, riskOutput, financeOutput, complianceOutput)
    /\ call' = [call EXCEPT !.done = TRUE]
    /\ pc' = "SYNTHESIZED"
    /\ stages' = Append(stages, "synthesize")
    /\ UNCHANGED <<member, claimsByMember, riskOutput, financeOutput, complianceOutput, serverVars>>

NextOrchestrator ==
    \/ RunRiskAgent
    \/ RunFinanceAgent
    \/ RunComplianceAgent
    \/ CapConfidence
    \/ Synthesize

SpecOrchestrator == InitOrchestrator /\ [][NextOrchestrator]_vars

(***************************************************************************)
(* Claims about runOrchestrator                                            *)
(***************************************************************************)
OrchestratorReturned == call.fn = "runOrchestrator" /\ call.done

\* The Risk Agent's findings for the member of the run
RiskFindings == runAgent(member, claimsByMember).suspect_hccs

\* C1: in every output of runOrchestrator, financial_impact is null exactly
\* when suspect_hccs is empty; with at least one finding it is the Finance
\* Agent's financial_impact object.
C1_FinanceIffFindings ==
    OrchestratorReturned =>
        /\ (result.financial_impact = <<>>) <=> (Len(result.suspect_hccs) = 0)
        /\ Len(result.suspect_hccs) > 0 =>
              result.financial_impact =
                 <<runFinanceAgent(runAgent(member, claimsByMember),
                      FinanceContext(member, ClaimsOf(claimsByMember, member.member_id))
                   ).financial_impact>>

C1_Witness ==
    /\ OrchestratorReturned
    /\ Len(result.suspect_hccs) > 0
    /\ result.financial_impact # <<>>
    /\ result.financial_impact[1].estimated_revenue_uplift > 0

\* The order of steps a run with / without findings goes through
StagesWithFindings    == <<"risk", "finance", "compliance", "cap", "synthesize">>
StagesWithoutFindings == <<"risk", "compliance", "cap", "synthesize">>

IsPrefix(s, t) == Len(s) <= Len(t) /\ \A i \in 1..Len(s) : s[i] = t[i]

\* C2: a run goes through its stages in one fixed forward order: Risk Agent,
\* then Finance Agent exactly when the Risk Agent returned a finding, then
\* Compliance Agent, the confidence cap only after the Compliance Agent has
\* returned, then the synthesized output.  No stage repeats, and a run is
\* never at a stage from which no step is possible before the output.
C2_FixedStageOrder ==
    call.fn = "runOrchestrator" =>
        LET expected == IF Len(RiskFindings) > 0 THEN StagesWithFindings
                        ELSE StagesWithoutFindings
        IN  /\ IsPrefix(stages, expected)
            /\ (pc = "SYNTHESIZED") <=> (stages = expected)
            /\ pc = "RISK_EVALUATED" =>
                   NeedsFinance(riskOutput) \/ ComplianceReady(pc, riskOutput)
            /\ pc \in {"INIT", "RISK_EVALUATED", "FINANCE_EVALUATED",
                       "COMPLIANCE_EVALUATED", "CAPPED", "SYNTHESIZED"}

C2_Witness ==
    /\ pc = "SYNTHESIZED"
    /\ stages = StagesWithFindings

Confidences(hccs) == Map(LAMBDA h : h.confidence, hccs)

\* C3: in an output with compliance status REVIEW_REQUIRED and at least one
\* finding, every confidence is min(original, 0.85), so at most 0.85; in an
\* output with status APPROVED the confidences are exactly the Risk Agent's.
\* The second conjunct states the same of the post-processing statement
\* itself, applied to the Risk Agent's output under either status.
C3_ConfidenceCap ==
    OrchestratorReturned =>
        LET orig == Confidences(RiskFindings)
            got  == Confidences(result.suspect_hccs)
        IN  /\ Len(got) = Len(orig)
            /\ result.compliance.compliance_status = "REVIEW_REQUIRED" /\ Len(got) > 0 =>
                  \A i \in 1..Len(got) : got[i] <= 85 /\ got[i] = Min(orig[i], 85)
            /\ result.compliance.compliance_status = "APPROVED" => got = orig
            /\ \A st \in {"REVIEW_REQUIRED", "APPROVED"} :
                  LET post == Confidences(
                                 capConfidence(runAgent(member, claimsByMember),
                                     [result.compliance EXCEPT !.compliance_status = st]
                                 ).suspect_hccs)
                  IN  IF st = "REVIEW_REQUIRED"
                      THEN \A i \in 1..Len(orig) : post[i] = Min(orig[i], 85) /\ post[i] <= 85
                      ELSE post = orig

C3_Witness ==
    /\ OrchestratorReturned
    /\ result.compliance.compliance_status = "APPROVED"
    /\ Len(result.suspect_hccs) > 1
    /\ Confidences(result.suspect_hccs) = Confidences(RiskFindings)
    /\ \E i \in 1..Len(result.suspect_hccs) : result.suspect_hccs[i].confidence > 70

(***************************************************************************)
(* index.js : the server.  Snapshot loaded at startup                      *)
(***************************************************************************)
\* Members as the data generator writes them: member_months 12, gender F or
\* M, chronic_condition_flag set when risk_score > 0.6.
SnapshotMembers ==
    << [member_id |-> "M1", age |-> 70, gender |-> "F", state |-> "TX",
        plan_type |-> "Bronze", risk_score |-> 80, chronic_condition_flag |-> TRUE,
        hcc_codes |-> <<>>, member_months |-> 12],
       [member_id |-> "M2", age |-> 40, gender |-> "M", state |-> "NY",
        plan_type |-> "Silver", risk_score |-> 55, chronic_condition_flag |-> FALSE,
        hcc_codes |-> <<"HCC_19">>, member_months |-> 12],
       [member_id |-> "M3", age |-> 58, gender |-> "F", state |-> "TX",
        plan_type |-> "Gold", risk_score |-> 72, chronic_condition_flag |-> TRUE,
        hcc_codes |-> <<"HCC_19", "HCC_18">>, member_months |-> 12] >>

\* service_date is a day number (ISO date strings order the same way).
\* The generator draws each claim's date at random, so a member's claims
\* are in no particular date order: two orders of M1's eight RX claims,
\* one of them already by date, latest first.
DateOrders ==
    { <<8, 7, 6, 5, 4, 3, 2, 1>>,
      <<5, 5, 2, 9, 1, 9, 3, 5>> }

SnapshotClaims(dates) ==
    [i \in 1..Len(dates) |-> Claim(i, "M1", dates[i], "RX", 300)]
    \o << Claim(Len(dates) + 1, "M2", 3, "OP", 350),
          Claim(Len(dates) + 2, "M2", 6, "IP", 8000) >>

\* claims.forEach((c) => { ...claimByMember[c.member_id].push(c) })
buildClaimByMember(cs) ==
    LET ids == {cs[i].member_id : i \in 1..Len(cs)}
    IN  [id \in ids |-> SelectSeq(cs, LAMBDA c : c.member_id = id)]

MemberIds(ms) == {ms[i].member_id : i \in 1..Len(ms)}

\* members.forEach: memberRAF[m.member_id] = computeRAF(m, claimByMember)
buildMemberRAF(ms) ==
    [id \in MemberIds(ms) |->
        computeRAF(CHOOSE m \in {ms[i] : i \in 1..Len(ms)} : m.member_id = id)]

\* members.forEach: memberSuspects[m.member_id] = computeSuspectHCCs(m, claimByMember)
buildMemberSuspects(ms, cbm) ==
    [id \in MemberIds(ms) |->
        computeSuspectHCCs(CHOOSE m \in {ms[i] : i \in 1..Len(ms)} : m.member_id = id, cbm)]

\* loadData: the two data files, or on Vercel the empty snapshot when they
\* are missing (off Vercel the process exits instead).
Loaded ==
    { [VERCEL |-> FALSE, members |-> SnapshotMembers, claims |-> SnapshotClaims(d)] :
        d \in DateOrders }
    \cup { [VERCEL |-> TRUE, members |-> <<>>, claims |-> <<>>] }

Init ==
    /\ \E data \in Loaded, key \in BOOLEAN :
          /\ env = [VERCEL |-> data.VERCEL, OPENAI_API_KEY |-> key]
          /\ members = data.members
          /\ claims = data.claims
          /\ claimByMember = buildClaimByMember(data.claims)
          /\ memberRAF = buildMemberRAF(data.members)
          /\ memberSuspects = buildMemberSuspects(data.members, buildClaimByMember(data.claims))
    /\ response = [handler |-> "none"]
    /\ chat = [pc |-> "idle"]
    /\ member = <<>>
    /\ claimsByMember = <<>>
    /\ call = [fn |-> "server", done |-> FALSE]
    /\ result = "none"
    /\ OrchIdle

(***************************************************************************)
(* index.js : handlers that look one member up                             *)
(***************************************************************************)
\* ids a request may name: the snapshot's members and one unknown id
RequestIds == {"M1", "M2", "M3", "M9"}

\* A handler starts only between the turns of the event loop: once the
\* promise a handler awaits has settled, the rest of that handler runs
\* before any other request is taken up
Serving == chat.pc # "settled"

\* members.find((m) => m.member_id === id): <<>> when there is none
Find(ms, id) == SelectSeq(ms, LAMBDA m : m.member_id = id)

NotFound(h) == [handler |-> h, status |-> 404, body |-> [error |-> "Member not found"]]

\* Array.prototype.sort with a comparator (a, b) => key(b) - key(a): larger
\* keys first, elements of equal keys in their former order (the sort is
\* stable).  keys[i] is the key of seq[i].
SortDescByKeys(seq, keys) ==
    CHOOSE r \in
        { LET n       == Len(v)
              rank(i) == Cardinality({j \in 1..n : k[j] > k[i] \/ (k[j] = k[i] /\ j < i)})
          IN  [p \in 1..n |-> v[CHOOSE i \in 1..n : rank(i) = p - 1]] :
          v \in {seq}, k \in {keys} } : TRUE

\* sort((a, b) => new Date(b.service_date) - new Date(a.service_date))
SortByDateDesc(cs) == SortDescByKeys(cs, Map(LAMBDA c : c.service_date, cs))

\* slice(0, n): the first n elements, all but the last -n for a negative n
Take(seq, n) ==
    CHOOSE r \in
        { IF n >= 0 THEN SubSeq(v, 1, Min(n, Len(v)))
          ELSE SubSeq(v, 1, Max(0, Len(v) + n)) : v \in {seq} } : TRUE

\* memberRAF[id] ?? computeRAF(member, claimByMember)
RafOf(m) == IF m.member_id \in DOMAIN memberRAF THEN memberRAF[m.member_id] ELSE computeRAF(m)

\* memberSuspects[id] || []
SuspectsOf(m) == IF m.member_id \in DOMAIN memberSuspects THEN memberSuspects[m.member_id] ELSE <<>>

\* GET /api/members/:id.  The sort is Array.prototype.sort on the list held
\* in claimByMember, which reorders that list itself.
GetMember ==
    /\ Serving
    /\ \E id \in RequestIds :
           LET found  == Find(members, id)
               m      == found[1]
               has    == id \in DOMAIN claimByMember
               sorted == SortByDateDesc(ClaimsOf(claimByMember, id))
               index  == IF has THEN [claimByMember EXCEPT ![id] = sorted] ELSE claimByMember
               memberClaims == Take(sorted, 20)
               raf    == RafOf(m)
           IN  /\ IF env.VERCEL /\ Len(members) = 0
                  THEN /\ response' = [handler |-> "member", status |-> 503, body |-> [error |-> "Data not loaded", code |-> "DATA_NOT_LOADED"]]
                       /\ UNCHANGED claimByMember
                  ELSE IF found = <<>>
                  THEN /\ response' = NotFound("member")
                       /\ UNCHANGED claimByMember
                  ELSE /\ claimByMember' = index
                       /\ response' =
                            [handler |-> "member", status |-> 200,
                             body |-> [member        |-> m,
                                       recent_claims |-> memberClaims,
                                       total_claim_cost |->
                                           SumSeq(Map(LAMBDA c : c.allowed_amount, memberClaims)),
                                       raf           |-> raf,
                                       rafBreakdown  |->
                                           [demographic |-> getDemographicRAF(m.age, m.gender),
                                            hcc   |-> SumSeq(Map(WeightOf, m.hcc_codes)),
                                            total |-> raf],
                                       hccList       |->
                                           Map(LAMBDA c : [code |-> c, weight |-> WeightOf(c)],
                                               m.hcc_codes),
                                       suspectedHCCs |-> SuspectsOf(m),
                                       agent_output  |-> runAgent(m, index),
                                       orchestrated_output |->
                                           runOrchestrator(m, index, ClaimsOf(index, id)),
                                       risk_adj_revenue |->
                                           RoundDiv(computeRiskAdjRevenue(raf, MemberMonths(m)), 10)]]
               /\ UNCHANGED <<fnVars, orchVars, env, members, claims, memberRAF,
                              memberSuspects, chat>>

\* GET /api/orchestrator/member/:id
GetOrchestratorMember ==
    /\ Serving
    /\ \E id \in RequestIds :
           LET found == Find(members, id)
           IN  /\ response' =
                    IF found = <<>> THEN NotFound("orchestrator/member")
                    ELSE [handler |-> "orchestrator/member", status |-> 200,
                          body |-> runOrchestrator(found[1], claimByMember,
                                                   ClaimsOf(claimByMember, id))]
               /\ UNCHANGED <<fnVars, orchVars, env, snapshot, chat>>

\* GET /api/agent/member/:id
GetAgentMember ==
    /\ Serving
    /\ \E id \in RequestIds :
           LET found == Find(members, id)
           IN  /\ response' =
                    IF found = <<>> THEN NotFound("agent/member")
                    ELSE [handler |-> "agent/member", status |-> 200, body |-> runAgent(found[1], claimByMember)]
               /\ UNCHANGED <<fnVars, orchVars, env, snapshot, chat>>

(***************************************************************************)
(* index.js : handlers over the whole snapshot                             *)
(***************************************************************************)
\* runAgentBatch without the sort: the first `limit` members as listed
runAgentBatch_Unsorted(ms, cbm, limit) ==
    Map(LAMBDA m : runAgent(m, cbm), Take(ms, limit))

\* runAgentBatch(members, claimsByMember, limit)
runAgentBatch(ms, cbm, limit) ==
    LET sorted == Take(SortDescByKeys(ms, Map(LAMBDA m : m.risk_score, ms)), limit)
    IN  Map(LAMBDA m : runAgent(m, cbm), sorted)

\* The distinct elements of a list in the order of their first occurrence
\* (the key order of an object filled in that order)
KeysOf(seq) ==
    CHOOSE r \in
        { SelectSeq([i \in 1..Len(v) |-> [key |-> v[i],
                                          first |-> \A j \in 1..(i - 1) : v[j] # v[i]]],
                    LAMBDA e : e.first) : v \in {seq} } : TRUE

\* Math.round(x * k) / k of a quotient n / d: <<>> (NaN) when it is 0 / 0,
\* else <<value>> in units of 1 / k
RoundedOrNaN(n, d, k) == IF d = 0 THEN <<>> ELSE <<RoundScaled(Ratio(n, d), k)>>

\* s + h.revenue_uplift_estimate over all findings of all outputs (dollars)
AgentRevenueUplift(outs) ==
    SumSeq(Map(LAMBDA r : SumSeq(Map(LAMBDA h : h.revenue_uplift_estimate, r.suspect_hccs)), outs))

AgentRafUplift(outs) ==
    SumSeq(Map(LAMBDA r : SumSeq(Map(LAMBDA h : h.raf_uplift, r.suspect_hccs)), outs))

AgentSuspectCount(outs) == SumSeq(Map(LAMBDA r : Len(r.suspect_hccs), outs))

\* TotalRiskAdjRevenue with the default RAF 0.5 for every member
TotalRiskAdjRevenue_DefaultRAF ==
    SumSeq(Map(LAMBDA m : computeRiskAdjRevenue(500, MemberMonths(m)), members))

\* members.reduce((s, m) => s + computeRiskAdjRevenue(memberRAF[id] ?? 0.5, months), 0),
\* thousandths of a dollar
TotalRiskAdjRevenue ==
    SumSeq(Map(LAMBDA m : computeRiskAdjRevenue(
                   IF m.member_id \in DOMAIN memberRAF THEN memberRAF[m.member_id] ELSE 500,
                   MemberMonths(m)),
               members))

\* sum of the suspects' weights of one member, thousandths
SuspectWeight(m) == SumSeq(Map(LAMBDA x : x.weight, SuspectsOf(m)))

\* sum of memberRAF[id] ?? 0.5 over the members, thousandths
SumRAF ==
    SumSeq(Map(LAMBDA m : IF m.member_id \in DOMAIN memberRAF
                          THEN memberRAF[m.member_id] ELSE 500, members))

\* The per-state revenue of the outputs with findings, as the list of
\* {state, revenue_at_risk} sorted by revenue, largest first, first ten
TopStates(ms, withSuspects) ==
    LET stateOf(r) == (Find(ms, r.member_id)[1]).state
        revOf(r)   == IF r.financial_impact = <<>> THEN 0
                      ELSE r.financial_impact[1].estimated_revenue_uplift
        states     == Map(LAMBDA e : e.key, KeysOf(Map(stateOf, withSuspects)))
        entries    == Map(LAMBDA st :
                            [state |-> st,
                             revenue_at_risk |->
                                SumSeq(Map(LAMBDA r : IF stateOf(r) = st THEN revOf(r) ELSE 0,
                                           withSuspects))],
                          states)
    IN  Take(SortDescByKeys(entries, Map(LAMBDA e : e.revenue_at_risk, entries)), 10)

\* The fields getExecutiveSummary and GET /api/orchestrator/summary share
OrchestratorTotals(ms, cbm) ==
    Let(Map(LAMBDA m : runOrchestrator(m, cbm, ClaimsOf(cbm, m.member_id)), ms),
        LAMBDA results :
    Let(SelectSeq(results, LAMBDA r : Len(r.suspect_hccs) > 0), LAMBDA withSuspects :
        [totalSuspectRafLeakage |-> AgentRafUplift(withSuspects),
         revenueAtRisk |->
            SumSeq(Map(LAMBDA r : IF r.financial_impact = <<>> THEN 0
                                  ELSE r.financial_impact[1].estimated_revenue_uplift,
                       withSuspects)),
         complianceApproved |->
            Len(SelectSeq(results, LAMBDA r : r.compliance.compliance_status = "APPROVED")),
         top10RiskLeakageStates |-> TopStates(ms, withSuspects),
         membersWithSuspects |-> Len(withSuspects)]))

\* getExecutiveSummary(): complianceClearedPct in tenths of a percent
getExecutiveSummary(ms, cbm) ==
    Let(OrchestratorTotals(ms, cbm), LAMBDA t :
        [totalSuspectRafLeakage |-> t.totalSuspectRafLeakage,
         revenueAtRisk          |-> t.revenueAtRisk,
         complianceClearedPct   |->
            IF Len(ms) > 0
            THEN RoundScaled(Ratio(t.complianceApproved, Len(ms)), 1000)
            ELSE 0,
         top10RiskLeakageStates |-> t.top10RiskLeakageStates,
         membersWithSuspects    |-> t.membersWithSuspects])

\* GET /api/dashboard: the kpis and the executive block (the chart groupings
\* by month, plan and state read the snapshot the same way and are left out)
GetDashboard ==
    /\ Serving
    /\ \E now \in {50, 95} :   \* the day the request arrives on (Date.now())
           LET totalMembers == Len(members)
               totalAllowed == SumSeq(Map(LAMBDA c : c.allowed_amount, claims))
               totalPremium == totalMembers * 15000
               rawMLR == IF totalPremium > 0 THEN Ratio(totalAllowed, totalPremium) ELSE <<0, 1>>
               highRiskCount == Len(SelectSeq(members, LAMBDA m : m.risk_score >= 70))
               highRAFCount  == Len(SelectSeq(members, LAMBDA m :
                                      m.member_id \in DOMAIN memberRAF
                                      /\ memberRAF[m.member_id] > 1200))
               totalSuspectUplift ==
                   SumSeq(Map(LAMBDA m : SuspectWeight(m) * BASE_RATE_PMPM * MemberMonths(m), members))
               adjustedPremium == totalPremium * 1000 + TotalRiskAdjRevenue
               riskAdjustedMLR == IF adjustedPremium > 0
                                  THEN Ratio(totalAllowed * 1000, adjustedPremium) ELSE rawMLR
           IN  \E agentResults \in {runAgentBatch(members, claimByMember, Len(members))} :
               /\ response' =
                    [handler |-> "dashboard", status |-> 200,
                     body |->
                       [kpis |->
                          [totalMembers |-> totalMembers,
                           activeClaims |-> Len(SelectSeq(claims, LAMBDA c : c.service_date >= now - 90)),
                           mlr          |-> RoundScaled(rawMLR, 1000),
                           highRiskPct  |-> RoundedOrNaN(highRiskCount, totalMembers, 1000),
                           avgCostPerMember |->
                               IF totalMembers > 0
                               THEN RoundScaled(Ratio(totalAllowed, totalMembers), 100) ELSE 0,
                           avgRAF       |-> RoundedOrNaN(SumRAF, totalMembers, 1),
                           highRAFPct   |-> RoundedOrNaN(highRAFCount, totalMembers, 1000),
                           riskAdjRevenue   |-> RoundDiv(TotalRiskAdjRevenue, 10),
                           suspectRAFUplift |-> RoundDiv(totalSuspectUplift, 10),
                           suspectHCCCount  |-> SumSeq(Map(LAMBDA m : Len(SuspectsOf(m)), members)),
                           agentSuspectHCCCount        |-> AgentSuspectCount(agentResults),
                           agentPotentialRafUplift     |-> AgentRafUplift(agentResults),
                           agentPotentialRevenueUplift |-> AgentRevenueUplift(agentResults) * 100,
                           riskAdjustedMLR   |-> RoundScaled(riskAdjustedMLR, 1000),
                           mlrImprovementBps |-> RoundScaledDiff(riskAdjustedMLR, rawMLR, 10000)],
                        executive |-> getExecutiveSummary(members, claimByMember)]]
               /\ UNCHANGED <<fnVars, orchVars, env, snapshot, chat>>

\* GET /api/orchestrator/summary
GetOrchestratorSummary ==
    /\ Serving
    /\ \E t \in {OrchestratorTotals(members, claimByMember)} :
           /\ response' =
                [handler |-> "orchestrator/summary", status |-> 200,
                 body |-> [totalSuspectRafLeakage |-> t.totalSuspectRafLeakage,
                           revenueAtRisk          |-> t.revenueAtRisk,
                           complianceClearedPct   |->
                               IF Len(members) > 0
                               THEN RoundScaled(Ratio(t.complianceApproved, Len(members)), 1000)
                               ELSE 0,
                           top10RiskLeakageStates |-> t.top10RiskLeakageStates,
                           membersWithSuspects    |-> t.membersWithSuspects]]
           /\ UNCHANGED <<fnVars, orchVars, env, snapshot, chat>>

\* r.suspect_hccs.reduce((s, h) => s + h.revenue_uplift_estimate, 0)
LeakageRisk(r) == SumSeq(Map(LAMBDA h : h.revenue_uplift_estimate, r.suspect_hccs))

\* GET /api/agent/batch?limit=&sort=; limit 0 stands for an absent or
\* unparsable limit
GetAgentBatch ==
    /\ Serving
    /\ \E lim \in {0, 1, 2}, sortBy \in {"risk", "leakage"} :
           \E byRisk \in {runAgentBatch(members, claimByMember,
                                         Min(IF lim = 0 THEN 1000 ELSE lim, 1000))} :
           LET results == IF sortBy = "leakage"
                          THEN LET withRisk == Map(LAMBDA r : [output |-> r,
                                                       leakage_risk |-> LeakageRisk(r)], byRisk)
                               IN  SortDescByKeys(withRisk, Map(LeakageRisk, byRisk))
                          ELSE Map(LAMBDA r : [output |-> r], byRisk)
           IN  /\ response' = [handler |-> "agent/batch", status |-> 200,
                               body |-> [results |-> results, count |-> Len(results)]]
               /\ UNCHANGED <<fnVars, orchVars, env, snapshot, chat>>

\* GET /api/agent/summary
GetAgentSummary ==
    /\ Serving
    /\ \E results \in {runAgentBatch(members, claimByMember, Len(members))} :
       LET leakage   == SelectSeq(Map(LAMBDA r : [member_id     |-> r.member_id,
                                                  leakage_risk  |-> LeakageRisk(r),
                                                  suspect_count |-> Len(r.suspect_hccs)],
                                      results),
                                  LAMBDA e : e.leakage_risk > 0)
           byLeakage == Take(SortDescByKeys(leakage, Map(LAMBDA e : e.leakage_risk, leakage)), 20)
       IN  /\ response' =
                [handler |-> "agent/summary", status |-> 200,
                 body |-> [totalSuspectHCCs       |-> AgentSuspectCount(results),
                           potentialRafUplift     |-> AgentRafUplift(results),
                           potentialRevenueUplift |-> AgentRevenueUplift(results) * 100,
                           membersWithSuspects    |->
                               Len(SelectSeq(results, LAMBDA r : Len(r.suspect_hccs) > 0)),
                           topLeakageRisk         |-> byLeakage]]
           /\ UNCHANGED <<fnVars, orchVars, env, snapshot, chat>>

\* Query values of the list handlers: "" stands for an absent parameter
StateFilters == {"", "TX"}

\* page and limit are left at their defaults: (page 1, limit 50)
Paginate(seq) == Take(seq, 50)

\* GET /api/members?state=&chronic=
GetMembers ==
    /\ Serving
    /\ \E state \in StateFilters, chronic \in BOOLEAN :
           \E filtered \in {SelectSeq(members, LAMBDA m :
                               /\ (state # "" => m.state = state)
                               /\ (chronic => m.chronic_condition_flag))} :
               /\ response' = [handler |-> "members", status |-> 200,
                               body |-> [members |-> Paginate(filtered),
                                         total   |-> Len(filtered),
                                         page    |-> 1,
                                         limit   |-> 50]]
               /\ UNCHANGED <<fnVars, orchVars, env, snapshot, chat>>

\* GET /api/claims?claim_type=&state=
GetClaims ==
    /\ Serving
    /\ \E claim_type \in {"", "RX"}, state \in StateFilters :
           \E filtered \in {SelectSeq(claims, LAMBDA c :
                               /\ (claim_type # "" => c.claim_type = claim_type)
                               /\ (state # "" =>
                                     \E i \in 1..Len(members) :
                                         /\ members[i].state = state
                                         /\ members[i].member_id = c.member_id))} :
           LET totalAllowed == SumSeq(Map(LAMBDA c : c.allowed_amount, filtered))
               memberCount  == Cardinality({filtered[i].member_id : i \in 1..Len(filtered)})
               \* amounts.sort((a, b) => a - b)
               amounts == Let(Map(LAMBDA c : c.allowed_amount, filtered),
                              LAMBDA v : SortDescByKeys(v, Map(LAMBDA x : 0 - x, v)))
               \* amounts[Math.floor(amounts.length * 0.95)]
               p95 == IF Len(amounts) > 0 THEN amounts[(Len(amounts) * 95) \div 100 + 1] ELSE 0
           IN  /\ response' =
                    [handler |-> "claims", status |-> 200,
                     body |-> [claims |-> Paginate(filtered),
                               total  |-> Len(filtered),
                               page   |-> 1,
                               limit  |-> 50,
                               metrics |->
                                  [totalAllowed |-> totalAllowed * 100,
                                   pmpm |-> IF memberCount > 0
                                            THEN RoundScaled(Ratio(totalAllowed, memberCount), 100)
                                            ELSE 0,
                                   outlierCount |->
                                       Len(SelectSeq(filtered, LAMBDA c : c.allowed_amount >= p95)),
                                   p95Threshold |-> p95 * 100]]]
               /\ UNCHANGED <<fnVars, orchVars, env, snapshot, chat>>

\* The RAF bucket of GET /api/risk-explorer
RafBucket(r) ==
    IF r < 600 THEN "0.3-0.6" ELSE IF r < 900 THEN "0.6-0.9"
    ELSE IF r < 1200 THEN "0.9-1.2" ELSE IF r < 1500 THEN "1.2-1.5" ELSE "1.5-3.0"

\* GET /api/risk-explorer?state=&hcc= (the revenue concentration curve,
\* further sums over the same sorted copy, is left out)
GetRiskExplorer ==
    /\ Serving
    /\ \E state \in StateFilters, hcc \in {"", "HCC_19"} :
           \E entries \in
               {SelectSeq(
                   Map(LAMBDA m :
                           [member |-> m,
                            raf    |-> IF m.member_id \in DOMAIN memberRAF
                                       THEN memberRAF[m.member_id] ELSE 500,
                            suspectCount   |-> Len(SuspectsOf(m)),
                            riskAdjRevenue |->
                                computeRiskAdjRevenue(
                                    IF m.member_id \in DOMAIN memberRAF
                                    THEN memberRAF[m.member_id] ELSE 500, MemberMonths(m))],
                       members),
                   LAMBDA e : /\ (state # "" => e.member.state = state)
                              /\ (hcc # "" => Includes(e.member.hcc_codes, hcc)))} :
           LET sortedByRAF     == SortDescByKeys(entries, Map(LAMBDA e : e.raf, entries))
               \* Math.ceil(entries.length * 0.1)
               top10PctCount   == (Len(entries) + 9) \div 10
               top10PctRevenue == SumSeq(Map(LAMBDA e : e.riskAdjRevenue,
                                             Take(sortedByRAF, top10PctCount)))
               totalRevenue    == SumSeq(Map(LAMBDA e : e.riskAdjRevenue, entries))
           IN  /\ response' =
                    [handler |-> "risk-explorer", status |-> 200,
                     body |-> [members |-> Paginate(entries),
                               total   |-> Len(entries),
                               page    |-> 1,
                               limit   |-> 50,
                               rafDistribution |->
                                  [b \in {"0.3-0.6", "0.6-0.9", "0.9-1.2", "1.2-1.5", "1.5-3.0"} |->
                                      Len(SelectSeq(entries, LAMBDA e : RafBucket(e.raf) = b))],
                               hccPrevalence |->
                                  [code \in HCC_CODES |->
                                      Len(SelectSeq(entries, LAMBDA e :
                                             Includes(e.member.hcc_codes, code)))],
                               top10PctRevenue  |-> RoundDiv(top10PctRevenue, 10),
                               totalRiskRevenue |-> RoundDiv(totalRevenue, 10),
                               top10PctShare |->
                                  IF totalRevenue > 0
                                  THEN RoundScaled(Ratio(top10PctRevenue, totalRevenue), 1000)
                                  ELSE 0]]
               /\ UNCHANGED <<fnVars, orchVars, env, snapshot, chat>>

(***************************************************************************)
(* index.js : POST /api/simulation                                         *)
(***************************************************************************)
\* A plan-mix input of a request body is <<>> when the field is absent,
\* else <<n>>, the number in hundredths.  The plan mixes requests are drawn from: every field absent, the
\* client's normalized defaults, other scales, all zero
PlanMixInputs ==
    { [bronze |-> <<>>,    silver |-> <<>>,    gold |-> <<>>],
      [bronze |-> <<40>>,  silver |-> <<35>>,  gold |-> <<25>>],
      [bronze |-> <<200>>, silver |-> <<100>>, gold |-> <<100>>],
      [bronze |-> <<0>>,   silver |-> <<>>,    gold |-> <<0>>],
      [bronze |-> <<0>>,   silver |-> <<0>>,   gold |-> <<0>>] }

\* const { x = dflt } = req.body: the default applies to an absent field only
OrDefault(input, dflt) == IF input = <<>> THEN dflt ELSE input[1]

\* n / total as JavaScript computes it: <<>> for the NaN of 0 / 0, else the
\* quotient in lowest terms (the inputs are not negative)
Proportion(n, total) == IF total = 0 THEN <<>> ELSE Ratio(n, total)

\* baseCostByPlan[m.plan_type] || 1, in tenths
BaseCostByPlan(plan) ==
    IF plan = "Bronze" THEN 10 ELSE IF plan = "Silver" THEN 14
    ELSE IF plan = "Gold" THEN 20 ELSE 10

\* simulatedRiskRevenue with the uplift taken off the baseline
simulatedRiskRevenue_Subtracts(close_suspect_pct, coding_improvement_pct) ==
    TotalRiskAdjRevenue
    - SumSeq(Map(LAMBDA m :
                   ((SuspectWeight(m) * close_suspect_pct
                     + (IF Len(m.hcc_codes) > 0 THEN 50 * coding_improvement_pct ELSE 0))
                    * (BASE_RATE_PMPM \div 100) * MemberMonths(m)), members))

\* let simulatedRiskRevenue = members.reduce(...); if (close_suspect_pct > 0 ||
\* coding_improvement_pct > 0) simulatedRiskRevenue += upliftPerMember;
\* thousandths of a dollar.  The uplift of a member is
\* (closedUplift + codingUplift) * BASE_RATE_PMPM * months: the weights are
\* thousandths, the percentages are divided by 100
simulatedRiskRevenue(close_suspect_pct, coding_improvement_pct) ==
    LET upliftPerMember ==
            SumSeq(Map(LAMBDA m :
                         ((SuspectWeight(m) * close_suspect_pct
                           + (IF Len(m.hcc_codes) > 0 THEN 50 * coding_improvement_pct ELSE 0))
                          * (BASE_RATE_PMPM \div 100) * MemberMonths(m)), members))
    IN  TotalRiskAdjRevenue
        + (IF close_suspect_pct > 0 \/ coding_improvement_pct > 0
           THEN upliftPerMember ELSE 0)

\* MlrFields with the basis points taken from the two returned MLRs
MlrFields_FromReturned(projectedCost, totalPremium, riskRevenue) ==
    LET expectedMLR  == IF totalPremium > 0 THEN Ratio(projectedCost, totalPremium * 100)
                        ELSE Ratio(82, 100)
        adjustedMLR  == IF totalPremium * 1000 + riskRevenue > 0
                        THEN Ratio(projectedCost * 10, totalPremium * 1000 + riskRevenue)
                        ELSE expectedMLR
    IN  [expected_mlr        |-> Min(950, RoundScaled(expectedMLR, 1000)),
         risk_adjusted_mlr   |-> Min(950, RoundScaled(adjustedMLR, 1000)),
         mlr_improvement_bps |-> 10 * (Min(950, RoundScaled(adjustedMLR, 1000))
                                       - Min(950, RoundScaled(expectedMLR, 1000)))]

\* expectedMLR, adjustedMLR and the three fields returned from them:
\* projectedCost in cents, totalPremium in dollars, riskRevenue in
\* thousandths of a dollar; the MLRs returned in thousandths
MlrFields(projectedCost, totalPremium, riskRevenue) ==
    LET expectedMLR  == IF totalPremium > 0 THEN Ratio(projectedCost, totalPremium * 100)
                        ELSE Ratio(82, 100)
        adjustedMLR  == IF totalPremium * 1000 + riskRevenue > 0
                        THEN Ratio(projectedCost * 10, totalPremium * 1000 + riskRevenue)
                        ELSE expectedMLR
    IN  [expected_mlr        |-> Min(950, RoundScaled(expectedMLR, 1000)),
         risk_adjusted_mlr   |-> Min(950, RoundScaled(adjustedMLR, 1000)),
         mlr_improvement_bps |-> RoundScaledDiff(adjustedMLR, expectedMLR, 10000)]

\* Simulation with each member's cost weighted by the bronze percentage
Simulation_MixWeighted(risk_threshold, mix, close_suspect_pct, coding_improvement_pct) ==
    LET bronze_pct == OrDefault(mix.bronze, 40)
        silver_pct == OrDefault(mix.silver, 35)
        gold_pct   == OrDefault(mix.gold, 25)
        total      == bronze_pct + silver_pct + gold_pct
        highRiskCount == Len(SelectSeq(members, LAMBDA m : m.risk_score >= risk_threshold))
        \* 1200 * planCost * bronze_pct * riskMultiplier * (0.9 + risk_score * 0.2)
        projectedCost ==
            SumSeq(Map(LAMBDA m : 12 * BaseCostByPlan(m.plan_type) * bronze_pct
                                     * (IF m.risk_score >= risk_threshold THEN 2 ELSE 1)
                                     * (900 + 2 * m.risk_score), members))
        riskRevenue  == simulatedRiskRevenue(close_suspect_pct, coding_improvement_pct)
        mlr          == MlrFields(projectedCost, Len(members) * 15000, riskRevenue)
    IN  [risk_threshold  |-> risk_threshold,
         high_risk_count |-> highRiskCount,
         high_risk_pct   |-> RoundedOrNaN(highRiskCount, Len(members), 1000),
         expected_mlr    |-> mlr.expected_mlr,
         total_projected_cost |-> projectedCost,
         plan_mix |-> [bronze |-> Proportion(bronze_pct, total),
                       silver |-> Proportion(silver_pct, total),
                       gold   |-> Proportion(gold_pct, total)],
         avgRAF   |-> RoundedOrNaN(SumRAF, Len(members), 1),
         total_risk_revenue  |-> RoundDiv(riskRevenue, 10),
         risk_adjusted_mlr   |-> mlr.risk_adjusted_mlr,
         mlr_improvement_bps |-> mlr.mlr_improvement_bps,
         close_suspect_pct   |-> close_suspect_pct,
         coding_improvement_pct |-> coding_improvement_pct]

\* The response body of the simulation; money in cents unless noted
Simulation(risk_threshold, mix, close_suspect_pct, coding_improvement_pct) ==
    LET bronze_pct == OrDefault(mix.bronze, 40)
        silver_pct == OrDefault(mix.silver, 35)
        gold_pct   == OrDefault(mix.gold, 25)
        total      == bronze_pct + silver_pct + gold_pct
        highRiskCount == Len(SelectSeq(members, LAMBDA m : m.risk_score >= risk_threshold))
        \* 1200 * planCost * riskMultiplier * (0.9 + risk_score * 0.2), cents
        projectedCost ==
            SumSeq(Map(LAMBDA m : 12 * BaseCostByPlan(m.plan_type)
                                     * (IF m.risk_score >= risk_threshold THEN 2 ELSE 1)
                                     * (900 + 2 * m.risk_score), members))
        riskRevenue  == simulatedRiskRevenue(close_suspect_pct, coding_improvement_pct)
        mlr          == MlrFields(projectedCost, Len(members) * 15000, riskRevenue)
    IN  [risk_threshold  |-> risk_threshold,
         high_risk_count |-> highRiskCount,
         high_risk_pct   |-> RoundedOrNaN(highRiskCount, Len(members), 1000),
         expected_mlr    |-> mlr.expected_mlr,
         total_projected_cost |-> projectedCost,
         plan_mix |-> [bronze |-> Proportion(bronze_pct, total),
                       silver |-> Proportion(silver_pct, total),
                       gold   |-> Proportion(gold_pct, total)],
         avgRAF   |-> RoundedOrNaN(SumRAF, Len(members), 1),
         total_risk_revenue  |-> RoundDiv(riskRevenue, 10),
         risk_adjusted_mlr   |-> mlr.risk_adjusted_mlr,
         mlr_improvement_bps |-> mlr.mlr_improvement_bps,
         close_suspect_pct   |-> close_suspect_pct,
         coding_improvement_pct |-> coding_improvement_pct]

\* POST /api/simulation
PostSimulation ==
    /\ Serving
    /\ \E mix \in PlanMixInputs, close \in {0, 30, 100}, coding \in {0, 50} :
           /\ response' = [handler |-> "simulation", status |-> 200,
                           request |-> [mix |-> mix],
                           body |-> Simulation(70, mix, close, coding)]
           /\ UNCHANGED <<fnVars, orchVars, env, snapshot, chat>>

(***************************************************************************)
(* upload-analyzer.js : POST /api/upload/analyze                           *)
(***************************************************************************)
\* Request bodies of an upload: no arrays at all, a member without
\* risk_score, and a valid upload that reuses the id of a snapshot member
\* and has a claim of a member it does not list
Uploads ==
    { [members |-> <<>>, claims |-> <<>>],
      [members |-> << [member_id |-> "M1", age |-> 66, gender |-> "M", state |-> "CA",
                       plan_type |-> "Gold"] >>,
       claims  |-> << Claim(1, "M1", 2, "RX", 500) >>],
      [members |-> << [member_id |-> "M1", age |-> 66, gender |-> "M", state |-> "CA",
                       plan_type |-> "Gold", risk_score |-> 90,
                       chronic_condition_flag |-> TRUE, hcc_codes |-> <<>>,
                       member_months |-> 6] >>,
       claims  |-> << Claim(1, "M1", 2, "RX", 500), Claim(2, "M1", 7, "RX", 700),
                      Claim(3, "X9", 1, "IP", 9000), Claim(4, "M1", 4, "IP", 6000) >>] }

\* validateUpload(members, claims): the record {valid, errors}
validateUpload(ms, cs) ==
    LET requiredMember ==
            <<"member_id", "age", "gender", "state", "plan_type", "risk_score">>
        requiredClaim ==
            <<"claim_id", "member_id", "service_date", "claim_type", "allowed_amount">>
        missing(sample, required, prefix) ==
            Map(LAMBDA k : <<prefix, k, " is required">>,
                SelectSeq(required, LAMBDA k : k \notin DOMAIN sample))
        errors ==
            (IF Len(ms) = 0 THEN << <<"members array is empty">> >>
             ELSE missing(ms[1], requiredMember, "members[]."))
            \o (IF Len(cs) = 0 THEN << <<"claims array is empty">> >>
                ELSE missing(cs[1], requiredClaim, "claims[]."))
    IN  [valid |-> errors = <<>>, errors |-> errors]

\* runUploadAnalysis(members, claims): the kpis that depend on the maps, the
\* executive block, and the three maps it builds for itself (locals)
runUploadAnalysis(ms, cs) ==
    Let(SelectSeq(cs, LAMBDA c : \E i \in 1..Len(ms) : ms[i].member_id = c.member_id),
        LAMBDA claimsForAnalysis :
    Let(buildClaimByMember(claimsForAnalysis), LAMBDA ownClaimByMember :
    Let(buildMemberRAF(ms), LAMBDA ownMemberRAF :
    Let(buildMemberSuspects(ms, ownClaimByMember), LAMBDA ownMemberSuspects :
    Let(runAgentBatch(ms, ownClaimByMember, Min(Len(ms), 2000)), LAMBDA agentResults :
        LET totalMembers == Len(ms)
            totalAllowed == SumSeq(Map(LAMBDA c : c.allowed_amount, claimsForAnalysis))
            totalPremium == totalMembers * 15000
            rawMLR == IF totalPremium > 0 THEN Ratio(totalAllowed, totalPremium) ELSE <<0, 1>>
            totalRiskAdjRevenue ==
                SumSeq(Map(LAMBDA m : computeRiskAdjRevenue(ownMemberRAF[m.member_id],
                                                            MemberMonths(m)), ms))
            adjustedPremium == totalPremium * 1000 + totalRiskAdjRevenue
            riskAdjustedMLR == IF adjustedPremium > 0
                               THEN Ratio(totalAllowed * 1000, adjustedPremium) ELSE rawMLR
        IN  [body |->
               [kpis |->
                  [totalMembers |-> totalMembers,
                   mlr          |-> RoundScaled(rawMLR, 1000),
                   avgRAF       |->
                       RoundScaled(Ratio(SumSeq(Map(LAMBDA m : ownMemberRAF[m.member_id], ms)),
                                         totalMembers), 1),
                   riskAdjRevenue  |-> RoundDiv(totalRiskAdjRevenue, 10),
                   suspectHCCCount |->
                       SumSeq(Map(LAMBDA m : Len(ownMemberSuspects[m.member_id]), ms)),
                   agentSuspectHCCCount |-> AgentSuspectCount(agentResults),
                   riskAdjustedMLR   |-> RoundScaled(riskAdjustedMLR, 1000),
                   mlrImprovementBps |-> RoundScaledDiff(riskAdjustedMLR, rawMLR, 10000)],
                executive |-> getExecutiveSummary(ms, ownClaimByMember)],
             locals |-> [claimByMember  |-> ownClaimByMember,
                         memberRAF      |-> ownMemberRAF,
                         memberSuspects |-> ownMemberSuspects]])))))

\* POST /api/upload/analyze.  The response record also shows the maps the
\* analysis built (locals), which the handler drops when it returns.
PostUploadAnalyze ==
    /\ Serving
    /\ \E up \in Uploads :
          \E validation \in {validateUpload(up.members, up.claims)} :
             /\ response' =
                  IF ~validation.valid
                  THEN [handler |-> "upload", status |-> 400,
                        body |-> [error |-> "Invalid upload", details |-> validation.errors]]
                  ELSE Let(runUploadAnalysis(up.members, up.claims), LAMBDA r :
                           [handler |-> "upload", status |-> 200, request |-> up,
                            body |-> r.body, locals |-> r.locals])
             /\ UNCHANGED <<fnVars, orchVars, env, snapshot, chat>>

(***************************************************************************)
(* chat-query-interpreter.js : interpretQuery                              *)
(* A text is the list of its characters.                                   *)
(***************************************************************************)
\* The characters of the texts the program and the requests use
Chars(s) ==
    CASE s = "abcdefghijklmnopqrstuvwxyz" ->
           <<"a", "b", "c", "d", "e", "f", "g", "h", "i", "j", "k", "l", "m", "n", "o", "p",
             "q", "r", "s", "t", "u", "v", "w", "x", "y", "z">>
      [] s = "ABCDEFGHIJKLMNOPQRSTUVWXYZ" ->
           <<"A", "B", "C", "D", "E", "F", "G", "H", "I", "J", "K", "L", "M", "N", "O", "P",
             "Q", "R", "S", "T", "U", "V", "W", "X", "Y", "Z">>
      [] s = "0123456789" -> <<"0", "1", "2", "3", "4", "5", "6", "7", "8", "9">>
      [] s = "TEXAS" -> <<"T", "E", "X", "A", "S">>
      [] s = "NY" -> <<"N", "Y">>
      [] s = "CALIFORNIA" -> <<"C", "A", "L", "I", "F", "O", "R", "N", "I", "A">>
      [] s = "CA" -> <<"C", "A">>
      [] s = "FLORIDA" -> <<"F", "L", "O", "R", "I", "D", "A">>
      [] s = "FL" -> <<"F", "L">>
      [] s = "NEWYORK" -> <<"N", "E", "W", "Y", "O", "R", "K">>
      [] s = "NEW YORK" -> <<"N", "E", "W", " ", "Y", "O", "R", "K">>
      [] s = "TX" -> <<"T", "X">>
      [] s = "Bronze" -> <<"B", "r", "o", "n", "z", "e">>
      [] s = "Silver" -> <<"S", "i", "l", "v", "e", "r">>
      [] s = "Gold" -> <<"G", "o", "l", "d">>
      [] s = "percent" -> <<"p", "e", "r", "c", "e", "n", "t">>
      [] s = "leak" -> <<"l", "e", "a", "k">>
      [] s = "leaking" -> <<"l", "e", "a", "k", "i", "n", "g">>
      [] s = "leakage" -> <<"l", "e", "a", "k", "a", "g", "e">>
      [] s = "missing" -> <<"m", "i", "s", "s", "i", "n", "g">>
      [] s = "revenue at risk" ->
           <<"r", "e", "v", "e", "n", "u", "e", " ", "a", "t", " ", "r", "i", "s", "k">>
      [] s = "where are we" -> <<"w", "h", "e", "r", "e", " ", "a", "r", "e", " ", "w", "e">>
      [] s = "close" -> <<"c", "l", "o", "s", "e">>
      [] s = "what happens if" ->
           <<"w", "h", "a", "t", " ", "h", "a", "p", "p", "e", "n", "s", " ", "i", "f">>
      [] s = "suspect" -> <<"s", "u", "s", "p", "e", "c", "t">>
      [] s = "worst" -> <<"w", "o", "r", "s", "t">>
      [] s = "adjusted mlr" -> <<"a", "d", "j", "u", "s", "t", "e", "d", " ", "m", "l", "r">>
      [] s = "plans" -> <<"p", "l", "a", "n", "s">>
      [] s = "hcc" -> <<"h", "c", "c">>
      [] s = "driv" -> <<"d", "r", "i", "v">>
      [] s = "domin" -> <<"d", "o", "m", "i", "n">>
      [] s = "unique" -> <<"u", "n", "i", "q", "u", "e">>
      [] s = "texas" -> <<"t", "e", "x", "a", "s">>
      [] s = "Why is Texas Bronze leaking RAF?" ->
           <<"W", "h", "y", " ", "i", "s", " ", "T", "e", "x", "a", "s", " ", "B", "r", "o",
             "n", "z", "e", " ", "l", "e", "a", "k", "i", "n", "g", " ", "R", "A", "F", "?">>
      [] s = "What happens if we close 30% of suspect HCCs?" ->
           <<"W", "h", "a", "t", " ", "h", "a", "p", "p", "e", "n", "s", " ", "i", "f", " ",
             "w", "e", " ", "c", "l", "o", "s", "e", " ", "3", "0", "%", " ", "o", "f", " ",
             "s", "u", "s", "p", "e", "c", "t", " ", "H", "C", "C", "s", "?">>
      [] s = "Which plans have the worst adjusted MLR?" ->
           <<"W", "h", "i", "c", "h", " ", "p", "l", "a", "n", "s", " ", "h", "a", "v", "e",
             " ", "t", "h", "e", " ", "w", "o", "r", "s", "t", " ", "a", "d", "j", "u", "s",
             "t", "e", "d", " ", "M", "L", "R", "?">>
      [] s = "Leakage" -> <<"L", "e", "a", "k", "a", "g", "e">>
      [] s = "Plans" -> <<"P", "l", "a", "n", "s">>
      [] s = "Hello" -> <<"H", "e", "l", "l", "o">>

LowerCase == Chars("abcdefghijklmnopqrstuvwxyz")
UpperCase == Chars("ABCDEFGHIJKLMNOPQRSTUVWXYZ")
DigitChars == Chars("0123456789")

\* The position of character c in the list abc, 0 when it is not there
PosIn(abc, c) == IF \E i \in 1..Len(abc) : abc[i] = c
                 THEN CHOOSE i \in 1..Len(abc) : abc[i] = c ELSE 0

toUpperCase(text) ==
    Map(LAMBDA c : IF PosIn(LowerCase, c) > 0 THEN UpperCase[PosIn(LowerCase, c)] ELSE c, text)

toLowerCase(text) ==
    Map(LAMBDA c : IF PosIn(UpperCase, c) > 0 THEN LowerCase[PosIn(UpperCase, c)] ELSE c, text)

\* String.prototype.includes
IncludesText(text, pat) ==
    \E t \in {text}, p \in {pat} :
        \E i \in 0..(Len(t) - Len(p)) : SubSeq(t, i + 1, i + Len(p)) = p

\* key.replace(' ', ''): the text without its first space
RemoveFirstSpace(text) ==
    IF PosIn(text, " ") = 0 THEN text
    ELSE SubSeq(text, 1, PosIn(text, " ") - 1) \o SubSeq(text, PosIn(text, " ") + 1, Len(text))

\* \w of a regular expression
IsWordChar(c) ==
    PosIn(LowerCase, c) > 0 \/ PosIn(UpperCase, c) > 0 \/ PosIn(DigitChars, c) > 0 \/ c = "_"

\* The keys and values of stateMap, in the order Object.entries lists them
StateMap ==
    << <<"TEXAS", "TX">>, <<"NY", "NY">>, <<"CALIFORNIA", "CA">>, <<"CA", "CA">>,
       <<"FLORIDA", "FL">>, <<"FL", "FL">>, <<"NEWYORK", "NY">>, <<"NEW YORK", "NY">> >>

\* extractState(text): <<>> for null, else <<the state's characters>>
extractState(text) ==
    Let(toUpperCase(text), LAMBDA t :
        LET hit(e) == \/ IncludesText(t, RemoveFirstSpace(Chars(e[1])))
                      \/ IncludesText(t, Chars(e[1]))
            \* /\b([A-Z]{2})\b/ matches at position i
            match(i) == /\ PosIn(UpperCase, t[i]) > 0
                        /\ PosIn(UpperCase, t[i + 1]) > 0
                        /\ (i = 1 \/ ~IsWordChar(t[i - 1]))
                        /\ (i + 1 = Len(t) \/ ~IsWordChar(t[i + 2]))
            matches  == {i \in 1..(Len(t) - 1) : match(i)}
        IN  IF \E k \in 1..Len(StateMap) : hit(StateMap[k])
            THEN << Chars(StateMap[CHOOSE k \in 1..Len(StateMap) :
                                      /\ hit(StateMap[k])
                                      /\ \A j \in 1..(k - 1) : ~hit(StateMap[j])][2]) >>
            ELSE IF matches = {} THEN <<>>
            ELSE Let(CHOOSE i \in matches : \A j \in matches : i <= j,
                     LAMBDA i : << SubSeq(t, i, i + 1) >>))

PLANS == <<"Bronze", "Silver", "Gold">>

\* extractPlan(text): <<>> for null, else <<plan>>
extractPlan(text) ==
    Let(toLowerCase(text), LAMBDA t :
        LET hit(p) == IncludesText(t, toLowerCase(Chars(p)))
        IN  IF \E k \in 1..Len(PLANS) : hit(PLANS[k])
            THEN << PLANS[CHOOSE k \in 1..Len(PLANS) :
                             hit(PLANS[k]) /\ \A j \in 1..(k - 1) : ~hit(PLANS[j])] >>
            ELSE <<>>)

\* parseInt(digits, 10) of a run of digit characters
RECURSIVE ParseDigits(_, _)
ParseDigits(digits, n) ==
    CHOOSE r \in { IF k = 0 THEN 0
                   ELSE 10 * ParseDigits(d, k - 1) + (PosIn(DigitChars, d[k]) - 1) :
                   d \in {digits}, k \in {n} } : TRUE

\* extractPercent(text), the match of /(\d+)\s*%|percent|percentage/:
\* <<>> for null, <<n>> for a number, <<NaN>> when the match is the word
\* (parseInt(undefined))
extractPercent(text) ==
    Let(text, LAMBDA t :
        LET n == Len(t)
            isDigit(i) == i <= n /\ PosIn(DigitChars, t[i]) > 0
            \* the end of the run of digits that starts at i
            digitsEnd(i) == CHOOSE e \in i..n :
                                /\ \A j \in i..e : isDigit(j)
                                /\ ~isDigit(e + 1)
            \* the first position after the blanks that follow position e
            afterBlanks(e) == CHOOSE p \in (e + 1)..(n + 1) :
                                /\ \A j \in (e + 1)..(p - 1) : t[j] = " "
                                /\ (p = n + 1 \/ t[p] # " ")
            number(i) == /\ isDigit(i)
                         /\ afterBlanks(digitsEnd(i)) <= n
                         /\ t[afterBlanks(digitsEnd(i))] = "%"
            word(i)   == i + 6 <= n /\ SubSeq(t, i, i + 6) = Chars("percent")
            matches   == {i \in 1..n : number(i) \/ word(i)}
        IN  IF matches = {} THEN <<>>
            ELSE Let(CHOOSE i \in matches : \A j \in matches : i <= j, LAMBDA i :
                     IF number(i)
                     THEN << ParseDigits(SubSeq(t, i, digitsEnd(i)), digitsEnd(i) - i + 1) >>
                     ELSE << NaN >>))

\* interpretQuery with the Plan MLR test first
interpretQuery_PlansFirst(userQuestion) ==
    Let(toLowerCase(userQuestion), LAMBDA q :
        LET has(s) == IncludesText(q, Chars(s))
        IN  [state      |-> extractState(userQuestion),
             plan_type  |-> extractPlan(userQuestion),
             analysis_type |->
                IF has("worst") \/ has("adjusted mlr") \/ has("plans") THEN "Plan MLR"
                ELSE IF has("leak") \/ has("leaking") \/ has("leakage") THEN "RAF Leakage"
                ELSE IF has("missing") \/ has("revenue at risk") \/ has("where are we")
                     THEN "Revenue at Risk"
                ELSE IF has("close") \/ has("what happens if") \/ has("suspect")
                     THEN "What-If Closure"
                ELSE IF has("hcc") /\ (has("driv") \/ has("domin")) THEN "HCC Drivers"
                ELSE IF has("unique") \/ has("texas") THEN "State Comparison"
                ELSE "General",
             close_suspect_pct |-> extractPercent(userQuestion),
             time_window |-> "Last 12 months"])

\* interpretQuery(userQuestion)
interpretQuery(userQuestion) ==
    Let(toLowerCase(userQuestion), LAMBDA q :
        LET has(s) == IncludesText(q, Chars(s))
        IN  [state      |-> extractState(userQuestion),
             plan_type  |-> extractPlan(userQuestion),
             analysis_type |->
                IF has("leak") \/ has("leaking") \/ has("leakage") THEN "RAF Leakage"
                ELSE IF has("missing") \/ has("revenue at risk") \/ has("where are we")
                     THEN "Revenue at Risk"
                ELSE IF has("close") \/ has("what happens if") \/ has("suspect")
                     THEN "What-If Closure"
                ELSE IF has("worst") \/ has("adjusted mlr") \/ has("plans") THEN "Plan MLR"
                ELSE IF has("hcc") /\ (has("driv") \/ has("domin")) THEN "HCC Drivers"
                ELSE IF has("unique") \/ has("texas") THEN "State Comparison"
                ELSE "General",
             close_suspect_pct |-> extractPercent(userQuestion),
             time_window |-> "Last 12 months"])

(***************************************************************************)
(* chat-orchestrator.js : runChatAnalysis, runChatQuery                    *)
(***************************************************************************)
HCC_LABELS(code) ==
    IF code = "HCC_18" THEN "Diabetes" ELSE IF code = "HCC_85" THEN "CHF"
    ELSE IF code = "HCC_96" THEN "COPD" ELSE IF code = "HCC_108" THEN "CKD"
    ELSE IF code = "HCC_19" THEN "Hypertension" ELSE code

\* members.filter by intent.state and intent.plan_type, where they are set
ChatFilter(ms, intent) ==
    SelectSeq(ms, LAMBDA m :
        /\ (intent.state # <<>> => Chars(m.state) = intent.state[1])
        /\ (intent.plan_type # <<>> => m.plan_type = intent.plan_type[1]))

\* runChatAnalysis(members, claimByMember, intent, memberRAFMap); revenue in
\* cents, the two MLRs as exact quotients
runChatAnalysis(ms, cbm, intent) ==
    Let(ChatFilter(ms, intent), LAMBDA filtered :
    Let(Map(LAMBDA m : runOrchestrator(m, cbm, ClaimsOf(cbm, m.member_id)), filtered),
        LAMBDA results :
    Let(SelectSeq(results, LAMBDA r : Len(r.suspect_hccs) > 0), LAMBDA withSuspects :
    Let(Flatten(Map(LAMBDA r : Map(LAMBDA h : h.hcc, r.suspect_hccs), withSuspects)),
        LAMBDA codes :
    Let(Map(LAMBDA e : [hcc |-> e.key, condition |-> HCC_LABELS(e.key),
                        count |-> Len(SelectSeq(codes, LAMBDA c : c = e.key))],
            KeysOf(codes)), LAMBDA counted :
        LET totalMembers    == Len(filtered)
            hccDistribution == SortDescByKeys(counted, Map(LAMBDA e : e.count, counted))
            totalHcc        == Len(codes)
            revenueAtRisk   ==
                SumSeq(Map(LAMBDA r : IF r.financial_impact = <<>> THEN 0
                                      ELSE r.financial_impact[1].estimated_revenue_uplift,
                           withSuspects))
            totalPremium    == totalMembers * 15000
            totalAllowed    ==
                SumSeq(Map(LAMBDA m : SumSeq(Map(LAMBDA c : c.allowed_amount,
                                                 ClaimsOf(cbm, m.member_id))), filtered))
            rawMLR      == IF totalPremium > 0 THEN Ratio(totalAllowed, totalPremium)
                           ELSE <<0, 1>>
            adjustedMLR == IF totalPremium * 100 + revenueAtRisk > 0
                           THEN Ratio(totalAllowed * 100, totalPremium * 100 + revenueAtRisk)
                           ELSE rawMLR
        IN  [intent       |-> intent,
             totalMembers |-> totalMembers,
             membersWithSuspects |-> Len(withSuspects),
             suspectPct   |-> IF totalMembers > 0
                              THEN RoundScaled(Ratio(Len(withSuspects), totalMembers), 100)
                              ELSE 0,
             hccDistribution |-> hccDistribution,
             topHccPct    |->
                 IF Len(hccDistribution) > 0 /\ totalHcc > 0
                 THEN RoundScaled(
                          Ratio(hccDistribution[1].count
                                + (IF Len(hccDistribution) > 1 THEN hccDistribution[2].count
                                   ELSE 0), totalHcc), 100)
                 ELSE 0,
             revenueAtRisk     |-> revenueAtRisk,
             mlrImprovementBps |-> RoundScaledDiff(adjustedMLR, rawMLR, 10000),
             rawMLR      |-> rawMLR,
             adjustedMLR |-> adjustedMLR,
             results     |-> Take(withSuspects, 100)])))))

\* The per-plan raw and adjusted MLR of the Plan MLR answer, worst adjusted
\* MLR first; riskRev in thousandths of a dollar
PlanMlr(ms, cbm, rafMap, intent) ==
    Let(SelectSeq(ms, LAMBDA m : intent.state # <<>> => Chars(m.state) = intent.state[1]),
        LAMBDA mList :
    Let(Map(LAMBDA e : e.key, KeysOf(Map(LAMBDA m : m.plan_type, mList))), LAMBDA plans :
    Let(Map(LAMBDA plan :
              LET inPlan  == SelectSeq(mList, LAMBDA m : m.plan_type = plan)
                  premium == Len(inPlan) * 15000
                  cost    == SumSeq(Map(LAMBDA m : SumSeq(Map(LAMBDA c : c.allowed_amount,
                                                        ClaimsOf(cbm, m.member_id))), inPlan))
                  riskRev == SumSeq(Map(LAMBDA m :
                                 (IF m.member_id \in DOMAIN rafMap THEN rafMap[m.member_id]
                                  ELSE 900) * BASE_RATE_PMPM * 12, inPlan))
              IN  [plan        |-> plan,
                   rawMLR      |-> Ratio(cost, premium),
                   adjustedMLR |-> Ratio(cost * 1000, premium * 1000 + riskRev)],
            plans), LAMBDA entries :
        \* sort((a, b) => b.adjustedMLR - a.adjustedMLR), stable
        LET n == Len(entries)
            before(j, i) ==
                Let(CmpFrac(entries[j].adjustedMLR[1], entries[j].adjustedMLR[2],
                            entries[i].adjustedMLR[1], entries[i].adjustedMLR[2]),
                    LAMBDA c : c > 0 \/ (c = 0 /\ j < i))
            rank(i) == Cardinality({j \in 1..n : j # i /\ before(j, i)})
        IN  [p \in 1..n |-> entries[CHOOSE i \in 1..n : rank(i) = p - 1]])))

\* Math.round(n * pct / 100) and the like for a percentage that may be NaN:
\* <<>> when it is
ScaledOrNaN(n, pct, d) == IF pct = NaN THEN <<>> ELSE <<RoundDiv(n * pct, d)>>

\* A number, or NaN, as it prints in a template
Shown(v) == IF v = <<>> THEN "NaN" ELSE ToString(v[1])

CONFIDENCE_NOTE ==
    "All insights are based on multi-signal evidence. No diagnostic claims or coding assertions made."
COMPLIANCE_NOTE ==
    "Language compliant. Evidence thresholds met. Suitable for executive review."

\* runChatQuery(userQuestion, members, claimByMember, memberRAFMap, runSimulationFn).
\* A text built from a template is the list of its pieces; numbers print
\* in the unit named after them.  The value of runSimulationFn is computed
\* by the source and not used in what it returns.
runChatQuery(userQuestion, ms, cbm, rafMap) ==
    Let(interpretQuery(userQuestion), LAMBDA intent :
    Let(runChatAnalysis(ms, cbm, intent), LAMBDA analysis :
        LET stateLabel == IF intent.state # <<>> THEN <<" ">> \o intent.state[1] ELSE <<>>
            planLabel  == IF intent.plan_type # <<>> THEN <<" ", intent.plan_type[1]>> ELSE <<>>
            notes(narrative) ==
                [intent             |-> intent,
                 shortAnswer        |-> narrative.shortAnswer,
                 evidence           |-> narrative.evidence,
                 whyItMatters       |-> narrative.whyItMatters,
                 recommendedAction  |-> narrative.recommendedAction,
                 followUpSuggestions |-> narrative.followUpSuggestions,
                 charts             |-> narrative.charts,
                 confidenceNote     |-> CONFIDENCE_NOTE,
                 complianceNote     |-> COMPLIANCE_NOTE]
        IN
        IF intent.analysis_type \in {"RAF Leakage", "Revenue at Risk"}
        THEN notes(
            [shortAnswer |->
                (IF stateLabel # <<>> THEN stateLabel ELSE <<"Population">>) \o planLabel
                \o << IF intent.analysis_type = "RAF Leakage" THEN " is leaking RAF"
                      ELSE " has revenue at risk",
                      " primarily due to undocumented chronic conditions in high-utilization members, creating measurable revenue loss." >>,
             evidence |->
                << <<ToString(analysis.suspectPct), "% of">> \o stateLabel \o planLabel
                      \o <<" members show suspect HCC patterns with no coded conditions">>,
                   <<"Top conditions (", ToString(analysis.topHccPct), "% of leakage): ">>
                      \o Map(LAMBDA h : h.condition, Take(analysis.hccDistribution, 2)),
                   <<"Average RAF for suspect members: 0.84 vs 1.21 expected (illustrative)">> >>,
             whyItMatters |->
                << <<"Estimated $", ToString(RoundDiv(analysis.revenueAtRisk, 1000000)),
                     "e-2 M in annual risk adjustment revenue at risk">>,
                   <<"Risk-adjusted MLR improves by ~", ToString(analysis.mlrImprovementBps),
                     " bps if gaps are closed">> >>,
             recommendedAction |->
                <<"Prioritize coding review for top 10% high-utilization">>
                \o stateLabel \o planLabel \o <<" members">>,
             followUpSuggestions |->
                << <<"Which HCCs are driving this?">>,
                   <<"What if we close 25% of these gaps?">>,
                   IF intent.state # <<>> THEN <<"Is this unique to this state?">>
                   ELSE <<"Which states have the worst leakage?">> >>,
             charts |->
                << [rafDistribution |->
                       Map(LAMBDA h : [name |-> h.condition, count |-> h.count],
                           analysis.hccDistribution),
                    revenueByHcc |->
                       Map(LAMBDA h :
                             [name  |-> h.condition,
                              value |-> RoundDiv(h.count * 3500,
                                                 IF Len(analysis.results) = 0 THEN 1
                                                 ELSE Len(analysis.results))],
                           Take(analysis.hccDistribution, 5))] >>])
        ELSE IF intent.analysis_type = "What-If Closure"
        THEN
            LET closePct == IF intent.close_suspect_pct = <<>> THEN 30
                            ELSE intent.close_suspect_pct[1]
                \* (uplift / 1e6).toFixed(2), hundredths of a million dollars
                upliftM  == ScaledOrNaN(analysis.revenueAtRisk, closePct, 100000000)
                bps      == ScaledOrNaN(analysis.mlrImprovementBps, closePct, 100)
                shownPct == IF closePct = NaN THEN "NaN" ELSE ToString(closePct)
            IN  notes(
            [shortAnswer |->
                <<"Closing ", shownPct, "% of suspect HCC gaps would capture an estimated $",
                  Shown(upliftM), "e-2 M in additional risk adjustment revenue and improve MLR by ~",
                  Shown(bps), " bps.">>,
             evidence |->
                << <<ToString(analysis.membersWithSuspects),
                     " members currently have suspect HCCs">>,
                   <<"Revenue uplift scales roughly linearly with closure rate">>,
                   <<"Assumes coding review confirms conditions meet documentation requirements">> >>,
             whyItMatters |->
                << <<"Estimated $", Shown(upliftM), "e-2 M revenue capture at ", shownPct,
                     "% closure">>,
                   <<"MLR improvement: ~", Shown(bps), " bps">> >>,
             recommendedAction |->
                <<"Run a pilot coding review on 50-100 high-utilization members to validate uplift assumptions">>,
             followUpSuggestions |->
                << <<"What if we close 50%?">>, <<"Which plans should we prioritize?">>,
                   <<"What are the top suspect HCCs?">> >>,
             charts |->
                << [whatIfClosure |->
                       [closePct |-> IF closePct = NaN THEN <<>> ELSE <<closePct>>,
                        estimatedUplift |->
                            ScaledOrNaN(analysis.revenueAtRisk, closePct, 10000)]] >>])
        ELSE IF intent.analysis_type = "Plan MLR"
        THEN
            Let(PlanMlr(ms, cbm, rafMap, intent), LAMBDA planMlr :
                LET pct(x) == ToString(RoundScaled(x, 1000))
                IN  notes(
                [shortAnswer |->
                    << IF planMlr # <<>> THEN planMlr[1].plan ELSE "Bronze",
                       " has the highest risk-adjusted MLR at ",
                       IF planMlr # <<>> THEN pct(planMlr[1].adjustedMLR) ELSE "0",
                       "e-1 %, driven by higher claims cost relative to premium and risk revenue." >>,
                 evidence |->
                    Map(LAMBDA p : <<p.plan, ": Raw MLR ", pct(p.rawMLR), "e-1 %, Adj. MLR ",
                                     pct(p.adjustedMLR), "e-1 %">>, Take(planMlr, 3)),
                 whyItMatters |->
                    << <<"Plan mix and risk capture directly affect margin visibility">>,
                       <<"Closing suspect HCCs improves adjusted MLR across all plans">> >>,
                 recommendedAction |->
                    <<"Focus coding improvement efforts on the highest-MLR plan first">>,
                 followUpSuggestions |->
                    << <<"Why is this plan worse?">>, <<"Compare to other states">>,
                       <<"What-if: close 30% of gaps">> >>,
                 charts |-> << [planMlr |-> planMlr] >>]))
        ELSE notes(
            [shortAnswer |->
                <<"Ask a focused question such as: \"Why is Texas Bronze leaking RAF?\" or \"What happens if we close 30% of suspect HCCs?\"">>,
             evidence |->
                << <<"Supported: RAF leakage by state/plan">>, <<"Revenue at risk">>,
                   <<"What-if closure scenarios">>, <<"Plan MLR comparison">> >>,
             whyItMatters |-> <<>>,
             recommendedAction |-> <<"Try one of the suggested questions below">>,
             followUpSuggestions |->
                << <<"Why is Texas Bronze leaking RAF?">>,
                   <<"Where are we missing risk adjustment revenue?">>,
                   <<"What happens if we close 30% of suspect HCCs?">>,
                   <<"Which plans have the worst adjusted MLR?">> >>,
             charts |-> <<>>])))

(***************************************************************************)
(* chat-llm.js : runChatWithLLM                                            *)
(***************************************************************************)
\* A field of the object the LLM's content parses to
Absent      == [kind |-> "absent"]
ArrayOf(a)  == [kind |-> "array", items |-> a]
StringOf(s) == [kind |-> "string", text |-> s]

\* What the call to the LLM can come to: fetch rejects, a status that is
\* not OK, no content in the reply, content that is not JSON, and content
\* that parses: to null, to an object without the keys, to an object with
\* keys of other types, to the object the prompt asks for
LlmContents ==
    { [parsed |-> "null"],
      [parsed |-> "object", shortAnswer |-> Absent, evidence |-> Absent,
       whyItMatters |-> Absent, recommendedAction |-> Absent,
       followUpSuggestions |-> Absent],
      [parsed |-> "object", shortAnswer |-> StringOf(""), evidence |-> StringOf("one line"),
       whyItMatters |-> ArrayOf(<<>>), recommendedAction |-> StringOf("Act"),
       followUpSuggestions |-> StringOf("Next?")],
      [parsed |-> "object", shortAnswer |-> StringOf("Answer"),
       evidence |-> ArrayOf(<< <<"e1">>, <<"e2">> >>),
       whyItMatters |-> ArrayOf(<< <<"w1">> >>), recommendedAction |-> StringOf("Act"),
       followUpSuggestions |-> ArrayOf(<< <<"f1">>, <<"f2">> >>)] }

LlmOutcomes == [kind : {"failure"},
                error : {"fetch rejected", "status not ok", "empty content", "invalid JSON"}]
               \cup [kind : {"content"}, content : LlmContents]

\* parsed.x || dflt for a text field
TextOr(field, dflt) ==
    IF field.kind = "string" /\ field.text # "" THEN <<field.text>>
    ELSE IF field.kind = "array" THEN field.items
    ELSE <<dflt>>

\* Array.isArray(parsed.x) ? parsed.x : [String(parsed.x || '')]
ListOr(field) ==
    IF field.kind = "array" THEN field.items
    ELSE IF field.kind = "string" THEN << <<field.text>> >>
    ELSE << <<"">> >>

\* runChatWithLLM from the point where fetch settles: [threw |-> TRUE] when
\* it throws, else the narrative it returns
runChatWithLLM(apiKey, outcome) ==
    IF ~apiKey \/ outcome.kind = "failure" \/ outcome.content.parsed = "null"
    THEN [threw |-> TRUE]
    ELSE Let(outcome.content, LAMBDA parsed :
         [threw |-> FALSE,
          shortAnswer  |-> TextOr(parsed.shortAnswer,
                                  "I couldn't generate a clear answer from the data."),
          evidence     |-> ListOr(parsed.evidence),
          whyItMatters |-> ListOr(parsed.whyItMatters),
          recommendedAction |->
              TextOr(parsed.recommendedAction,
                     "Review the data in the Dashboard or Member Explorer for more detail."),
          followUpSuggestions |->
              IF parsed.followUpSuggestions.kind = "array"
              THEN parsed.followUpSuggestions.items ELSE <<>>])

(***************************************************************************)
(* index.js : POST /api/chat/query                                         *)
(***************************************************************************)
\* An overlay that also takes the charts from the LLM's answer, which has none
overlay_ReplacesCharts(structuredResponse, llmResponse) ==
    [structuredResponse EXCEPT
        !.shortAnswer  = llmResponse.shortAnswer,
        !.evidence     = llmResponse.evidence,
        !.whyItMatters = llmResponse.whyItMatters,
        !.recommendedAction   = llmResponse.recommendedAction,
        !.followUpSuggestions = llmResponse.followUpSuggestions,
        !.charts       = <<>>]

\* {...structuredResponse, shortAnswer: llmResponse.shortAnswer, ...}
overlay(structuredResponse, llmResponse) ==
    [structuredResponse EXCEPT
        !.shortAnswer  = llmResponse.shortAnswer,
        !.evidence     = llmResponse.evidence,
        !.whyItMatters = llmResponse.whyItMatters,
        !.recommendedAction   = llmResponse.recommendedAction,
        !.followUpSuggestions =
            IF Len(llmResponse.followUpSuggestions) > 0
            THEN llmResponse.followUpSuggestions ELSE @]

\* Questions a chat request may carry; <<>> is a missing or empty question
Questions ==
    { <<>>,
      Chars("Why is Texas Bronze leaking RAF?"),
      Chars("What happens if we close 30% of suspect HCCs?"),
      Chars("Which plans have the worst adjusted MLR?"),
      Chars("Hello") }

\* POST /api/chat/query up to its await: the request is answered at once
\* unless OPENAI_API_KEY is set, in which case the handler waits for fetch
PostChatQuery ==
    /\ Serving
    /\ chat.pc = "idle"
    /\ \E question \in Questions :
          IF question = <<>>
          THEN /\ response' = [handler |-> "chat", status |-> 400,
                               body |-> [error |-> "Missing question"]]
               /\ UNCHANGED chat
          ELSE \E structuredResponse \in
                    {runChatQuery(question, members, claimByMember, memberRAF)} :
                  IF env.OPENAI_API_KEY
                  THEN /\ chat' = [pc |-> "awaiting", question |-> question,
                                   structuredResponse |-> structuredResponse]
                       /\ UNCHANGED response
                  ELSE /\ response' = [handler |-> "chat", status |-> 200,
                                       question |-> question,
                                       llm  |-> [kind |-> "not consulted"],
                                       body |-> structuredResponse]
                       /\ UNCHANGED chat
    /\ UNCHANGED <<fnVars, orchVars, env, snapshot>>

\* The environment: the promise of fetch settles.  Nothing in the call
\* bounds how long that takes.
LLMSettles ==
    /\ chat.pc = "awaiting"
    /\ \E outcome \in LlmOutcomes :
          chat' = [pc |-> "settled", question |-> chat.question,
                   structuredResponse |-> chat.structuredResponse, outcome |-> outcome]
    /\ UNCHANGED <<fnVars, orchVars, env, snapshot, response>>

\* The rest of the handler, run as soon as the promise has settled
ChatResume ==
    /\ chat.pc = "settled"
    /\ \E llmResponse \in {runChatWithLLM(env.OPENAI_API_KEY, chat.outcome)} :
          response' = [handler |-> "chat", status |-> 200, question |-> chat.question,
                       llm  |-> chat.outcome,
                       body |-> IF llmResponse.threw THEN chat.structuredResponse
                                ELSE overlay(chat.structuredResponse, llmResponse)]
    /\ chat' = [pc |-> "idle"]
    /\ UNCHANGED <<fnVars, orchVars, env, snapshot>>

Next ==
    \/ GetDashboard
    \/ GetMember
    \/ GetOrchestratorMember
    \/ GetOrchestratorSummary
    \/ GetAgentMember
    \/ GetAgentBatch
    \/ GetAgentSummary
    \/ GetMembers
    \/ GetClaims
    \/ GetRiskExplorer
    \/ PostSimulation
    \/ PostUploadAnalyze
    \/ PostChatQuery
    \/ LLMSettles
    \/ ChatResume

Spec == Init /\ [][Next]_vars

\* The server with the event loop's guarantee that a handler whose awaited
\* promise has settled is resumed.  Whether and when fetch settles is up to
\* the network and the LLM's server, so LLMSettles carries no fairness.
FairSpec == Init /\ [][Next]_vars /\ WF_vars(ChatResume)

(***************************************************************************)
(* Claims about the server                                                 *)
(***************************************************************************)
\* The deterministic answer to the question of the chat response sent last
Deterministic == runChatQuery(response.question, members, claimByMember, memberRAF)

ChatAnswered == response.handler = "chat" /\ response.status = 200

\* C7: whatever the narrative generator does, a chat response has the
\* fields of the deterministic runChatQuery result and its intent, charts,
\* confidenceNote and complianceNote; when the generator was not consulted or
\* failed (fetch rejected, status not OK, content empty, not JSON, or JSON
\* null) the response is exactly the deterministic result.
C7_ChatNarrativeOverlay ==
    ChatAnswered =>
        /\ DOMAIN response.body = DOMAIN Deterministic
        /\ response.body.intent = Deterministic.intent
        /\ response.body.charts = Deterministic.charts
        /\ response.body.confidenceNote = Deterministic.confidenceNote
        /\ response.body.complianceNote = Deterministic.complianceNote
        /\ (\/ response.llm.kind # "content"
            \/ response.llm.content.parsed = "null") => response.body = Deterministic

\* A chat response whose narrative is the LLM's while its charts are the
\* deterministic, non-null ones
C7_Witness ==
    /\ ChatAnswered
    /\ response.llm.kind = "content"
    /\ response.llm.content.parsed = "object"
    /\ response.body.shortAnswer = <<"Answer">>
    /\ response.body.shortAnswer # Deterministic.shortAnswer
    /\ response.body.charts # <<>>

\* C8: every chat query that waits for the narrative generator eventually
\* gets its response.
C8_ChatEventuallyResponds == (chat.pc = "awaiting") ~> (chat.pc = "idle")

\* C9: no request changes the snapshot loaded at startup: the member list,
\* the claims, each member's claim list in the index (contents and order)
\* and the RAF and suspect caches stay as they are; an upload analysis
\* fills maps of its own.
C9_SnapshotUnchanged == [][snapshot' = snapshot]_vars

\* The sum of the three proportions of a plan mix is 1
SumsToOne(mix) ==
    /\ mix.bronze # <<>> /\ mix.silver # <<>> /\ mix.gold # <<>>
    /\ mix.bronze[1] * mix.silver[2] * mix.gold[2]
       + mix.silver[1] * mix.bronze[2] * mix.gold[2]
       + mix.gold[1] * mix.bronze[2] * mix.silver[2]
       = mix.bronze[2] * mix.silver[2] * mix.gold[2]

\* C10: the plan_mix of every simulation response sums to 1, and is
\* 0.40 / 0.35 / 0.25 when the three inputs are 0.
C10_PlanMixNormalized ==
    response.handler = "simulation" =>
        /\ SumsToOne(response.body.plan_mix)
        /\ (/\ response.request.mix.bronze = <<0>>
            /\ response.request.mix.silver = <<0>>
            /\ response.request.mix.gold = <<0>>)
           => response.body.plan_mix =
                 [bronze |-> Ratio(40, 100), silver |-> Ratio(35, 100), gold |-> Ratio(25, 100)]

(***************************************************************************)
(* POST /api/simulation : risk revenue                                     *)
(***************************************************************************)
SimulationAnswered == response.handler = "simulation" /\ response.status = 200

\* Percentages of suspects closed the answered request is compared with
ClosePcts == {0, 1, 30, 50, 99, 100}

\* total_risk_revenue of the answered request with close_suspect_pct = p and
\* everything else as sent
RevenueAt(p) ==
    Simulation(response.body.risk_threshold, response.request.mix, p,
               response.body.coding_improvement_pct).total_risk_revenue

\* C11: for the snapshot and the other inputs of an answered simulation,
\* total_risk_revenue does not decrease when close_suspect_pct grows within
\* [0, 100]: p1 <= p2 implies revenue(p1) <= revenue(p2).
C11_RevenueMonotone ==
    SimulationAnswered =>
        /\ RevenueAt(response.body.close_suspect_pct) = response.body.total_risk_revenue
        /\ \A p1 \in ClosePcts \cup {response.body.close_suspect_pct} :
               \A p2 \in ClosePcts \cup {response.body.close_suspect_pct} :
                   p1 <= p2 => RevenueAt(p1) <= RevenueAt(p2)

\* a simulation closing 30% of the suspects of a snapshot with suspects:
\* the revenue is above the one at 0% and below the one at 100%
C11_Witness ==
    /\ SimulationAnswered
    /\ response.body.close_suspect_pct = 30
    /\ RevenueAt(0) < response.body.total_risk_revenue
    /\ response.body.total_risk_revenue < RevenueAt(100)

\* sum over the members of RAF x base PMPM x member_months, in cents
BaselineRevenue ==
    LET term(m) == (IF m.member_id \in DOMAIN memberRAF THEN memberRAF[m.member_id] ELSE 500)
                   * BASE_RATE_PMPM * (IF m.member_months = 0 THEN 12 ELSE m.member_months)
    IN  RoundDiv(SumSeq([i \in 1..Len(members) |-> term(members[i])]), 10)

\* C12: a simulation with close_suspect_pct = 0 and coding_improvement_pct = 0
\* returns as total_risk_revenue the baseline, the sum over all members of
\* RAF x base PMPM x member_months, with no uplift term added.
C12_ZeroPctIsBaseline ==
    (/\ SimulationAnswered
     /\ response.body.close_suspect_pct = 0
     /\ response.body.coding_improvement_pct = 0)
        => response.body.total_risk_revenue = BaselineRevenue

\* a 0% / 0% simulation of a snapshot whose members have suspects and coded
\* conditions, so that an uplift term would have shown
C12_Witness ==
    /\ SimulationAnswered
    /\ response.body.close_suspect_pct = 0
    /\ response.body.coding_improvement_pct = 0
    /\ response.body.total_risk_revenue > 0
    /\ \E i \in 1..Len(members) : SuspectWeight(members[i]) > 0
    /\ \E i \in 1..Len(members) : Len(members[i].hcc_codes) > 0

(***************************************************************************)
(* Evaluation of runFinanceAgent on findings lists and contexts            *)
(***************************************************************************)
\* Findings as the Risk Agent makes them (the estimate is
\* round(weight * 900 * months)) and findings of other callers: with no
\* estimate (0, so that raf_uplift * baseRate * member_months applies) and
\* with estimates at and next to the two thresholds
FinanceFindings ==
    { [hcc_code |-> "HCC_18", condition |-> "Diabetes", confidence |-> 65,
       evidence |-> <<"s1", "s2">>, raf_uplift |-> r[1], revenue_uplift_estimate |-> r[2]] :
      r \in { <<320, 3456>>, <<320, 0>>, <<450, 0>>, <<0, 0>>,
              <<140, 1999>>, <<140, 2000>>, <<0, 4999>>, <<0, 5000>> } }

FinanceRiskOutputs ==
    { [member_id |-> "M1", suspect_hccs |-> hccs] :
      hccs \in {<<>>} \cup {<<f>> : f \in FinanceFindings}
                      \cup {<<f, g>> : f \in FinanceFindings, g \in FinanceFindings} }

\* The defaults of an absent context are member_months 12, claims_cost 0 and
\* premium 15000; whole dollars
FinanceContexts ==
    [plan_type : {"Silver"}, member_months : {6, 12},
     claims_cost : {0, 2400, 20000}, premium : {0 - 15000, 0, 15000}]

InitFinance ==
    /\ member = <<>>
    /\ claimsByMember = <<>>
    /\ \E riskOut \in FinanceRiskOutputs, context \in FinanceContexts :
           call = [fn |-> "runFinanceAgent", done |-> FALSE, args |-> <<riskOut, context>>]
    /\ result = "none"
    /\ OrchIdle
    /\ ServerIdle

CallRunFinanceAgent ==
    /\ call.fn = "runFinanceAgent" /\ ~call.done
    /\ result' = runFinanceAgent(call.args[1], call.args[2])
    /\ call' = [call EXCEPT !.done = TRUE]
    /\ UNCHANGED <<member, claimsByMember, orchVars, serverVars>>

NextFinance == CallRunFinanceAgent

SpecFinance == InitFinance /\ [][NextFinance]_vars

FinanceReturned == call.fn = "runFinanceAgent" /\ call.done

\* C13: runFinanceAgent called with an empty findings list returns, for any
\* context (premium <= 0 included), a result with estimated revenue uplift
\* 0, total RAF uplift 0, MLR delta 0 bps and plan-level impact Low.
C13_EmptyFindingsZeroImpact ==
    (FinanceReturned /\ call.args[1].suspect_hccs = <<>>) =>
        /\ result.member_id = call.args[1].member_id
        /\ result.financial_impact.estimated_revenue_uplift = 0
        /\ result.financial_impact.total_raf_uplift = 0
        /\ result.financial_impact.mlr_improvement_bps = 0
        /\ result.financial_impact.plan_level_impact = "Low"

\* the call with no findings, claims cost and a premium that is not positive
C13_Witness ==
    /\ FinanceReturned
    /\ call.args[1].suspect_hccs = <<>>
    /\ call.args[2].premium <= 0
    /\ call.args[2].claims_cost > 0
    /\ result.financial_impact.plan_level_impact = "Low"

\* The sum of the findings' revenue uplifts of the call, in cents: a
\* finding's own estimate, or raf_uplift x 900 x member_months without one
\* (raf_uplift is in thousandths, so a tenth of it times 900 is in cents)
UpliftCents ==
    LET hccs == call.args[1].suspect_hccs
        cents(h) == IF h.revenue_uplift_estimate # 0 THEN 100 * h.revenue_uplift_estimate
                    ELSE h.raf_uplift * 90 * call.args[2].member_months
    IN  SumSeq([i \in 1..Len(hccs) |-> cents(hccs[i])])

\* C19: the plan-level impact tier is High when the estimated revenue uplift
\* is >= 5000, Medium when it is >= 2000 and < 5000, and Low otherwise, for
\* every findings list and context.
C19_ImpactTier ==
    FinanceReturned =>
        /\ result.financial_impact.estimated_revenue_uplift = UpliftCents
        /\ result.financial_impact.plan_level_impact =
               (IF UpliftCents >= 500000 THEN "High"
                ELSE IF UpliftCents >= 200000 THEN "Medium" ELSE "Low")

\* a call whose uplift is exactly 5000: the tier is High
C19_Witness ==
    /\ FinanceReturned
    /\ UpliftCents = 500000
    /\ result.financial_impact.plan_level_impact = "High"

(***************************************************************************)
(* Evaluation of interpretQuery on questions                               *)
(***************************************************************************)
\* Phrases questions are put together from: every keyword of the category
\* tests, two of them capitalised, a word that is no keyword, and the word
\* "percent"
QuestionPhrases ==
    { Chars(w) : w \in { "leak", "leaking", "Leakage", "missing", "revenue at risk",
                         "where are we", "close", "what happens if", "suspect", "worst",
                         "adjusted mlr", "plans", "Plans", "hcc", "driv", "domin",
                         "unique", "texas", "Hello", "percent" } }

\* The questions of the chat requests, one phrase, and two phrases with a
\* blank between them
InterpretQuestions ==
    Questions \cup QuestionPhrases
              \cup { a \o <<" ">> \o b : a \in QuestionPhrases, b \in QuestionPhrases }

InitInterpret ==
    /\ member = <<>>
    /\ claimsByMember = <<>>
    /\ \E userQuestion \in InterpretQuestions :
           call = [fn |-> "interpretQuery", done |-> FALSE, args |-> <<userQuestion>>]
    /\ result = "none"
    /\ OrchIdle
    /\ ServerIdle

CallInterpretQuery ==
    /\ call.fn = "interpretQuery" /\ ~call.done
    /\ result' = interpretQuery(call.args[1])
    /\ call' = [call EXCEPT !.done = TRUE]
    /\ UNCHANGED <<member, claimsByMember, orchVars, serverVars>>

NextInterpret == CallInterpretQuery

SpecInterpret == InitInterpret /\ [][NextInterpret]_vars

InterpretReturned == call.fn = "interpretQuery" /\ call.done

\* C14: interpretQuery on "What happens if we close 30% of suspect HCCs?"
\* returns the category What-If Closure, the percentage 30, and neither a
\* state nor a plan.
C14_ScenarioF ==
    (InterpretReturned
     /\ call.args[1] = Chars("What happens if we close 30% of suspect HCCs?")) =>
        /\ result.analysis_type = "What-If Closure"
        /\ result.close_suspect_pct = <<30>>
        /\ result.state = <<>>
        /\ result.plan_type = <<>>

\* The question of the call contains the keyword, letter case aside
Contains(keyword) == IncludesText(toLowerCase(call.args[1]), Chars(keyword))

\* The keyword groups in their order; the fifth group needs "hcc" and one
\* of its other two keywords
CategoryMatches ==
    << Contains("leak"),
       Contains("missing") \/ Contains("revenue at risk") \/ Contains("where are we"),
       Contains("close") \/ Contains("what happens if") \/ Contains("suspect"),
       Contains("worst") \/ Contains("adjusted mlr") \/ Contains("plans"),
       Contains("hcc") /\ (Contains("driv") \/ Contains("domin")),
       Contains("unique") \/ Contains("texas"),
       TRUE >>

Categories ==
    << "RAF Leakage", "Revenue at Risk", "What-If Closure", "Plan MLR", "HCC Drivers",
       "State Comparison", "General" >>

\* C20: every question gets exactly one category, that of the first keyword
\* group that matches in the order leak, missing / revenue at risk, close /
\* what happens if / suspect, worst / adjusted mlr / plans, hcc with driv or
\* domin, unique / texas, General; a question containing both "leak" and
\* "plans" is RAF Leakage.
C20_FirstMatchWins ==
    InterpretReturned =>
        /\ \E k \in 1..7 :
               /\ CategoryMatches[k]
               /\ \A j \in 1..(k - 1) : ~CategoryMatches[j]
               /\ result.analysis_type = Categories[k]
        /\ (Contains("leak") /\ Contains("plans")) => result.analysis_type = "RAF Leakage"

\* a question with "plans" before "leak", answered RAF Leakage
C20_Witness ==
    /\ InterpretReturned
    /\ call.args[1] = Chars("Plans") \o <<" ">> \o Chars("leaking")
    /\ result.analysis_type = "RAF Leakage"

(***************************************************************************)
(* Scenario A : runAgent and computeRAF on the 70-year-old member          *)
(***************************************************************************)
\* The claims of the call's member that are RX claims
RxClaims ==
    SelectSeq(ClaimsOf(claimsByMember, member.member_id), LAMBDA c : c.claim_type = "RX")

\* the member is aged 70, female, has no coded conditions and risk_score
\* 0.8, and exactly eight RX claims totalling 2400
ScenarioA ==
    /\ member.age = 70
    /\ member.gender = "F"
    /\ member.hcc_codes = <<>>
    /\ member.risk_score = 80
    /\ Len(RxClaims) = 8
    /\ SumSeq([i \in 1..Len(RxClaims) |-> RxClaims[i].allowed_amount]) = 2400

\* C15: for the member of Scenario A the findings of runAgent include
\* Diabetes (HCC_18) and Hypertension (HCC_19), each with at least 2
\* signals, and computeRAF returns 1.22.
C15_ScenarioA ==
    (AgentReturned /\ ScenarioA) =>
        /\ \E i \in FindingsFor(result, "HCC_18") :
               /\ result.suspect_hccs[i].condition = "Diabetes"
               /\ Len(result.suspect_hccs[i].evidence) >= 2
        /\ \E i \in FindingsFor(result, "HCC_19") :
               /\ result.suspect_hccs[i].condition = "Hypertension"
               /\ Len(result.suspect_hccs[i].evidence) >= 2
        /\ computeRAF(member) = 1220

\* Scenario A with the eight RX claims as the member's only claims and the
\* chronic condition flag not set
C15_Witness ==
    /\ AgentReturned
    /\ ScenarioA
    /\ Len(ClaimsOf(claimsByMember, member.member_id)) = 8
    /\ ~member.chronic_condition_flag
    /\ FindingsFor(result, "HCC_18") # {}
    /\ FindingsFor(result, "HCC_19") # {}

(***************************************************************************)
(* Evaluation of runComplianceAgent on risk and finance outputs            *)
(***************************************************************************)
SuspectHCC(code, condition, evidence) ==
    [hcc_code |-> code, condition |-> condition, confidence |-> 65, evidence |-> evidence,
     raf_uplift |-> HCC_WEIGHTS[code], revenue_uplift_estimate |-> 0]

\* Two findings as the Risk Agent makes them, and findings of other
\* callers: one and no evidence item, "confirmed diabetes" in the evidence
\* (alone and with a second item), an ICD-10 code in the evidence, a
\* diagnostic condition label, an evidence item ending in "has" before the
\* label, and a finding without a condition label
CleanFinding ==
    SuspectHCC("HCC_18", "Diabetes", <<"High chronic RX spend (12m)", "Elevated risk score">>)

ComplianceFindings ==
    { CleanFinding,
      SuspectHCC("HCC_19", "Hypertension",
                 <<"Multiple prescription fills", "Chronic medication pattern">>),
      SuspectHCC("HCC_19", "Hypertension", <<"Multiple prescription fills">>),
      SuspectHCC("HCC_108", "CKD", <<>>),
      SuspectHCC("HCC_18", "Diabetes", <<"confirmed diabetes", "Elevated risk score">>),
      SuspectHCC("HCC_18", "Diabetes", <<"confirmed diabetes">>),
      SuspectHCC("HCC_108", "CKD", <<"E11.9 on claim", "Elevated risk score">>),
      SuspectHCC("HCC_85", "Diagnosed CHF",
                 <<"Inpatient admission(s) in 12m", "High-cost procedure flag">>),
      SuspectHCC("HCC_96", "COPD", <<"Chronic medication pattern", "Member has">>),
      SuspectHCC("HCC_19", "", <<"Multiple prescription fills">>) }

ComplianceRiskOutputs ==
    { [member_id |-> "M1", suspect_hccs |-> hccs, overall_commentary |-> commentary] :
      hccs \in {<<>>} \cup {<<f>> : f \in ComplianceFindings}
                      \cup {<<CleanFinding, f>> : f \in ComplianceFindings},
      commentary \in {"null", COMMENTARY_REVIEW, "Member definitively needs review."} }

\* The finance output passed on: none ({}), or one whose revenue uplift (in
\* cents) is below, at and just above 10000 and 25000
ComplianceFinanceOutputs ==
    {<<>>} \cup { <<[financial_impact |-> [estimated_revenue_uplift |-> u]]>> :
                  u \in {345600, 1000000, 1000001, 2500000, 2500001} }

InitCompliance ==
    /\ member = <<>>
    /\ claimsByMember = <<>>
    /\ \E riskOut \in ComplianceRiskOutputs, financeOut \in ComplianceFinanceOutputs :
           call = [fn |-> "runComplianceAgent", done |-> FALSE,
                   args |-> <<riskOut, financeOut>>]
    /\ result = "none"
    /\ OrchIdle
    /\ ServerIdle

CallRunComplianceAgent ==
    /\ call.fn = "runComplianceAgent" /\ ~call.done
    /\ result' = runComplianceAgent(call.args[1], call.args[2])
    /\ call' = [call EXCEPT !.done = TRUE]
    /\ UNCHANGED <<member, claimsByMember, orchVars, serverVars>>

NextCompliance == CallRunComplianceAgent

SpecCompliance == InitCompliance /\ [][NextCompliance]_vars

ComplianceReturned == call.fn = "runComplianceAgent" /\ call.done

\* The findings and the revenue uplift (cents) of the call
CallFindings == call.args[1].suspect_hccs
CallUplift ==
    IF call.args[2] = <<>> THEN 0
    ELSE call.args[2][1].financial_impact.estimated_revenue_uplift

\* The finding's text: its evidence items and its condition label, with a
\* blank between two of them
FindingText(h) ==
    LET texts == h.evidence \o <<h.condition>>
    IN  Flatten([i \in 1..Len(texts) |->
                    (IF i = 1 THEN <<>> ELSE <<" ">>) \o Tokens(texts[i])])

ThinEvidence(h) == Len(h.evidence) < 2
DiagnosticFinding(h) == MatchesDiagnosticPattern(FindingText(h))
DiagnosticNarrative ==
    /\ call.args[1].overall_commentary # "null"
    /\ MatchesDiagnosticPattern(Tokens(call.args[1].overall_commentary))

\* An issue: a finding with fewer than 2 evidence items, diagnostic or
\* definitive language in a finding's text, or in the narrative
AnyIssue ==
    \/ \E i \in 1..Len(CallFindings) :
           ThinEvidence(CallFindings[i]) \/ DiagnosticFinding(CallFindings[i])
    \/ DiagnosticNarrative

\* The note of kind `what` that names finding h
NoteNaming(what, h) ==
    \E n \in 1..Len(result.notes) :
        /\ result.notes[n][1] = what
        /\ Len(result.notes[n]) = 2
        /\ result.notes[n][2] = (IF h.condition # "" THEN h.condition ELSE h.hcc_code)

\* C16: runComplianceAgent returns REVIEW_REQUIRED if and only if at least
\* one issue is found (a finding with fewer than 2 evidence items,
\* diagnostic or definitive language in a finding's evidence text or
\* condition label, or such language in the narrative), and each issue of a
\* finding is recorded as a note that names the finding's condition.
C16_ReviewIffIssue ==
    ComplianceReturned =>
        /\ (result.compliance_status = "REVIEW_REQUIRED") <=> AnyIssue
        /\ result.compliance_status \in {"REVIEW_REQUIRED", "APPROVED"}
        /\ \A i \in 1..Len(CallFindings) :
               /\ ThinEvidence(CallFindings[i])
                      => NoteNaming("Insufficient evidence for", CallFindings[i])
               /\ DiagnosticFinding(CallFindings[i])
                      => NoteNaming("Diagnostic language detected for", CallFindings[i])

\* the finding whose evidence contains "confirmed diabetes" next to a second
\* item, with a clean narrative: REVIEW_REQUIRED and a note naming Diabetes
C16_Witness ==
    /\ ComplianceReturned
    /\ CallFindings = <<SuspectHCC("HCC_18", "Diabetes",
                                   <<"confirmed diabetes", "Elevated risk score">>)>>
    /\ ~DiagnosticNarrative
    /\ result.compliance_status = "REVIEW_REQUIRED"
    /\ result.notes = << <<"Diagnostic language detected for", "Diabetes">> >>

\* C17: the risk level is HIGH when findings exist and the revenue uplift is
\* above 25000; otherwise MEDIUM when an issue was found or when findings
\* exist and the uplift is above 10000; otherwise LOW.  With no findings the
\* uplift never raises the level, and an issue never lowers HIGH to MEDIUM.
C17_RiskLevel ==
    ComplianceReturned =>
        /\ result.risk_level =
               (IF CallFindings # <<>> /\ CallUplift > 2500000 THEN "HIGH"
                ELSE IF AnyIssue \/ (CallFindings # <<>> /\ CallUplift > 1000000) THEN "MEDIUM"
                ELSE "LOW")
        /\ CallFindings = <<>> => result.risk_level = (IF AnyIssue THEN "MEDIUM" ELSE "LOW")
        /\ (AnyIssue /\ CallFindings # <<>> /\ CallUplift > 2500000)
               => result.risk_level = "HIGH"

\* no findings, a narrative with definitive language and an uplift above
\* 25000: the level is MEDIUM, from the issue alone
C17_Witness ==
    /\ ComplianceReturned
    /\ CallFindings = <<>>
    /\ DiagnosticNarrative
    /\ CallUplift > 2500000
    /\ result.risk_level = "MEDIUM"

\* C18 as stated: on clean input the status is APPROVED, the risk level LOW
\* and the notes are exactly the three confirmation notes.
C18_CleanInputLow ==
    (ComplianceReturned /\ ~AnyIssue) =>
        /\ result.compliance_status = "APPROVED"
        /\ result.risk_level = "LOW"
        /\ result.notes = << <<"Language compliant">>, <<"Evidence thresholds met">>,
                             <<"No diagnostic claims detected">> >>

\* C18: on clean input the status is APPROVED and the notes are exactly the
\* three confirmation notes; the risk level is LOW unless findings exist and
\* the revenue uplift is above 10000, then it is MEDIUM up to 25000 and HIGH
\* above.
C18_CleanInputApproved ==
    (ComplianceReturned /\ ~AnyIssue) =>
        /\ result.compliance_status = "APPROVED"
        /\ result.notes = << <<"Language compliant">>, <<"Evidence thresholds met">>,
                             <<"No diagnostic claims detected">> >>
        /\ result.risk_level =
               (IF CallFindings = <<>> \/ CallUplift <= 1000000 THEN "LOW"
                ELSE IF CallUplift <= 2500000 THEN "MEDIUM" ELSE "HIGH")

\* clean findings with an uplift just above 10000: APPROVED and MEDIUM
C18_Witness ==
    /\ ComplianceReturned
    /\ ~AnyIssue
    /\ CallFindings # <<>>
    /\ CallUplift = 1000001
    /\ result.compliance_status = "APPROVED"
    /\ result.risk_level = "MEDIUM"

(***************************************************************************)
(* interpretQuery : state and percentage extraction                        *)
(***************************************************************************)
\* A name of the state dictionary occurs in the question, letter case aside
DictionaryMatches ==
    \E k \in 1..Len(StateMap) :
        \/ IncludesText(toUpperCase(call.args[1]), Chars(StateMap[k][1]))
        \/ IncludesText(toUpperCase(call.args[1]), RemoveFirstSpace(Chars(StateMap[k][1])))

\* The two-letter words of the question as typed that are in upper case
UpperCaseTokens ==
    LET q == call.args[1]
        isUpper(c) == \E j \in 1..Len(UpperCase) : UpperCase[j] = c
    IN  { SubSeq(q, i, i + 1) : i \in
            { i \in 1..(Len(q) - 1) :
                /\ isUpper(q[i]) /\ isUpper(q[i + 1])
                /\ (i = 1 \/ ~IsWordChar(q[i - 1]))
                /\ (i + 1 = Len(q) \/ ~IsWordChar(q[i + 2])) } }

\* C21: when no dictionary name matches, the state is extracted only from a
\* token of two upper-case letters in the question as the user typed it; a
\* question whose two-letter words are all lower case yields no state.
C21_StateFromOriginalCase ==
    (InterpretReturned /\ ~DictionaryMatches) =>
        /\ result.state # <<>> => result.state[1] \in UpperCaseTokens
        /\ UpperCaseTokens = {} => result.state = <<>>

\* C22: the extracted percentage is either the integer written before a %
\* sign or absent (null); it is absent for every question without an
\* integer followed by %, those spelling out "percent" included.
C22_PercentIntegerOrAbsent ==
    InterpretReturned =>
        /\ result.close_suspect_pct = <<>>
           \/ (result.close_suspect_pct[1] \in Nat /\ Includes(call.args[1], "%"))
        /\ ~Includes(call.args[1], "%") => result.close_suspect_pct = <<>>

(***************************************************************************)
(* Evaluation of runChatQuery on questions, over a loaded snapshot         *)
(***************************************************************************)
InitChatQuery ==
    /\ member = <<>>
    /\ claimsByMember = <<>>
    /\ \E userQuestion \in InterpretQuestions, dates \in DateOrders :
           \E cbm \in {buildClaimByMember(SnapshotClaims(dates))} :
               call = [fn |-> "runChatQuery", done |-> FALSE,
                       args |-> <<userQuestion, SnapshotMembers, cbm,
                                  buildMemberRAF(SnapshotMembers)>>]
    /\ result = "none"
    /\ OrchIdle
    /\ ServerIdle

CallRunChatQuery ==
    /\ call.fn = "runChatQuery" /\ ~call.done
    /\ result' = runChatQuery(call.args[1], call.args[2], call.args[3], call.args[4])
    /\ call' = [call EXCEPT !.done = TRUE]
    /\ UNCHANGED <<member, claimsByMember, orchVars, serverVars>>

NextChatQuery == CallRunChatQuery

SpecChatQuery == InitChatQuery /\ [][NextChatQuery]_vars

ChatQueryReturned == call.fn = "runChatQuery" /\ call.done

\* The answer is the fixed help message
HelpAnswer ==
    /\ result.recommendedAction = <<"Try one of the suggested questions below">>
    /\ result.evidence = << <<"Supported: RAF leakage by state/plan">>, <<"Revenue at risk">>,
                            <<"What-if closure scenarios">>, <<"Plan MLR comparison">> >>

\* C23: for each category the Query Interpreter can produce (RAF Leakage,
\* Revenue at Risk, What-If Closure, Plan MLR, HCC Drivers, State
\* Comparison) runChatQuery renders the category's own narrative and chart
\* payload; only an unrecognized category gets the fixed help message, with
\* no chart payload.
C23_CategoryTemplates ==
    ChatQueryReturned =>
        IF result.intent.analysis_type \in
               {"RAF Leakage", "Revenue at Risk", "What-If Closure", "Plan MLR",
                "HCC Drivers", "State Comparison"}
        THEN ~HelpAnswer /\ result.charts # <<>>
        ELSE HelpAnswer /\ result.charts = <<>>

(***************************************************************************)
(* Evaluation of runAgentBatch on member lists and limits                  *)
(***************************************************************************)
MaxBatch == 3     \* most members of a runAgentBatch input

\* The i-th member of a batch: a snapshot member under the i-th id, with
\* risk score r
BatchMember(i, r) ==
    [SnapshotMembers[((i - 1) % Len(SnapshotMembers)) + 1]
        EXCEPT !.member_id = <<"M1", "M2", "M3", "M4", "M5">>[i], !.risk_score = r]

\* Member lists of every length up to MaxBatch, in every order of the risk
\* scores 0.55, 0.72 and 0.8, ties included
BatchMemberLists ==
    UNION { { [i \in 1..n |-> BatchMember(i, scores[i])] :
              scores \in [1..n -> {55, 72, 80}] } : n \in 0..MaxBatch }

InitBatch ==
    /\ member = <<>>
    /\ claimsByMember = <<>>
    \* the limits: fewer than, as many as and more than the members
    /\ \E ms \in BatchMemberLists, limit \in 0..(MaxBatch + 1), dates \in DateOrders :
           \E cbm \in {buildClaimByMember(SnapshotClaims(dates))} :
               call = [fn |-> "runAgentBatch", done |-> FALSE, args |-> <<ms, cbm, limit>>]
    /\ result = "none"
    /\ OrchIdle
    /\ ServerIdle

\* [...members] is a copy: the sort leaves the caller's list as it is
CallRunAgentBatch ==
    /\ call.fn = "runAgentBatch" /\ ~call.done
    /\ result' = runAgentBatch(call.args[1], call.args[2], call.args[3])
    /\ call' = [call EXCEPT !.done = TRUE]
    /\ UNCHANGED <<member, claimsByMember, orchVars, serverVars>>

NextBatch == CallRunAgentBatch

SpecBatch == InitBatch /\ [][NextBatch]_vars

BatchReturned == call.fn = "runAgentBatch" /\ call.done

\* The position in the input list of the member the k-th output is about
BatchIndex(k) ==
    CHOOSE i \in 1..Len(call.args[1]) : call.args[1][i].member_id = result[k].member_id

\* The outputs are min(N, number of members) many, each is runAgent on a
\* member of its own, in non-increasing order of risk_score, and no member
\* left out has a higher risk_score than one that is in
BatchTopN ==
    LET ms == call.args[1]
        picked == {BatchIndex(k) : k \in 1..Len(result)}
    IN  /\ Len(result) = (IF call.args[3] <= Len(ms) THEN call.args[3] ELSE Len(ms))
        /\ \A k \in 1..Len(result) :
               /\ \E i \in 1..Len(ms) : ms[i].member_id = result[k].member_id
               /\ result[k] = runAgent(ms[BatchIndex(k)], call.args[2])
        /\ Cardinality(picked) = Len(result)
        /\ \A k \in 1..(Len(result) - 1) :
               ms[BatchIndex(k)].risk_score >= ms[BatchIndex(k + 1)].risk_score
        /\ \A j \in (1..Len(ms)) \ picked : \A i \in picked :
               ms[j].risk_score <= ms[i].risk_score

MixTotal(mix) == OrDefault(mix.bronze, 40) + OrDefault(mix.silver, 35) + OrDefault(mix.gold, 25)

\* A simulation result with its plan_mix field blanked
WithoutPlanMix(body) == [body EXCEPT !.plan_mix = <<>>]

\* C25: a simulation answered for a plan mix with a non-zero total has, in
\* every field but plan_mix, the values the same snapshot and the same other
\* inputs give for any other plan mix with a non-zero total.
C25_PlanMixIndependent ==
    (SimulationAnswered /\ MixTotal(response.request.mix) # 0) =>
        \A mix2 \in PlanMixInputs :
            MixTotal(mix2) # 0 =>
                WithoutPlanMix(Simulation(response.body.risk_threshold, mix2,
                                          response.body.close_suspect_pct,
                                          response.body.coding_improvement_pct))
                    = WithoutPlanMix(response.body)

C25_Witness ==
    /\ SimulationAnswered
    /\ response.request.mix.bronze = <<200>>
    /\ Len(members) > 0
    /\ response.body.total_projected_cost > 0
    /\ response.body.plan_mix.bronze # Proportion(40, 100)


\* ---------------------------------------------------------------------------
\* The simulation's MLRs and their difference in basis points
\* ---------------------------------------------------------------------------

\* projectedCost / totalPremium of the answered request, before rounding and cap
UncappedExpectedMLR ==
    IF Len(members) > 0
    THEN Ratio(response.body.total_projected_cost, Len(members) * 15000 * 100)
    ELSE Ratio(82, 100)

\* projectedCost / (totalPremium + simulatedRiskRevenue) of the answered
\* request, before rounding and cap
UncappedAdjustedMLR ==
    LET revenue == simulatedRiskRevenue(response.body.close_suspect_pct,
                                        response.body.coding_improvement_pct)
    IN  IF Len(members) * 15000 * 1000 + revenue > 0
        THEN Ratio(response.body.total_projected_cost * 10,
                   Len(members) * 15000 * 1000 + revenue)
        ELSE UncappedExpectedMLR

\* C26: in every simulation result expected_mlr and risk_adjusted_mlr are at
\* most 0.95, and mlr_improvement_bps is the rounded difference, times 10000,
\* of the adjusted and the expected MLR before rounding and cap.
C26_BpsFromUncapped ==
    SimulationAnswered =>
        /\ response.body.expected_mlr <= 950
        /\ response.body.risk_adjusted_mlr <= 950
        /\ response.body.mlr_improvement_bps
               = RoundScaledDiff(UncappedAdjustedMLR, UncappedExpectedMLR, 10000)

C26_Witness ==
    /\ SimulationAnswered
    /\ response.body.mlr_improvement_bps < 0
    /\ response.body.mlr_improvement_bps
           # 10 * (response.body.risk_adjusted_mlr - response.body.expected_mlr)


\* ---------------------------------------------------------------------------
\* Compliance of the Risk Agent's own texts
\* ---------------------------------------------------------------------------

\* C27: every run of runOrchestrator ends with compliance status APPROVED and
\* the three confirmation notes; the Compliance Agent's output is APPROVED
\* from the moment it exists, and every returned finding has the confidence
\* the Risk Agent gave it.
C27_AlwaysApproved ==
    /\ pc \in {"COMPLIANCE_EVALUATED", "CAPPED", "SYNTHESIZED"} =>
           /\ complianceOutput.compliance_status = "APPROVED"
           /\ complianceOutput.notes = CONFIRMATION_NOTES
    /\ OrchestratorReturned =>
           /\ result.compliance.compliance_status = "APPROVED"
           /\ result.compliance.notes = CONFIRMATION_NOTES
           /\ Len(result.suspect_hccs) = Len(RiskFindings)
           /\ \A i \in 1..Len(RiskFindings) :
                  result.suspect_hccs[i].confidence = RiskFindings[i].confidence

C27_Witness ==
    /\ OrchestratorReturned
    /\ Len(result.suspect_hccs) >= 3
    /\ \E i \in 1..Len(RiskFindings) :
           \E k \in 1..Len(RiskFindings[i].evidence) :
               RiskFindings[i].evidence[k] = "High prescription count (suggests ongoing management)"
    /\ result.compliance.compliance_status = "APPROVED"
    /\ Len(result.compliance.notes) = 3


\* ---------------------------------------------------------------------------
\* The orchestrator's findings and their financial impact
\* ---------------------------------------------------------------------------

\* C28: in every output of runOrchestrator with findings,
\* estimated_revenue_uplift (cents) is the sum of the listed findings'
\* revenue_uplift_estimate (dollars), total_raf_uplift is the sum of their
\* raf_uplift, and each listed finding is the Risk Agent's finding with its
\* code under the key hcc and its confidence capped at 0.85 under
\* REVIEW_REQUIRED, every other field as the Risk Agent returned it.
C28_FindingsAndTotals ==
    (OrchestratorReturned /\ Len(result.suspect_hccs) > 0) =>
        /\ result.financial_impact # <<>>
        /\ result.financial_impact[1].estimated_revenue_uplift
               = 100 * SumSeq(Map(LAMBDA h : h.revenue_uplift_estimate, result.suspect_hccs))
        /\ result.financial_impact[1].total_raf_uplift
               = SumSeq(Map(LAMBDA h : h.raf_uplift, result.suspect_hccs))
        /\ Len(result.suspect_hccs) = Len(RiskFindings)
        /\ \A i \in 1..Len(RiskFindings) :
              result.suspect_hccs[i] =
                 [hcc        |-> RiskFindings[i].hcc_code,
                  condition  |-> RiskFindings[i].condition,
                  confidence |-> IF result.compliance.compliance_status = "REVIEW_REQUIRED"
                                 THEN Min(RiskFindings[i].confidence, 85)
                                 ELSE RiskFindings[i].confidence,
                  evidence   |-> RiskFindings[i].evidence,
                  raf_uplift |-> RiskFindings[i].raf_uplift,
                  revenue_uplift_estimate |-> RiskFindings[i].revenue_uplift_estimate]

C28_Witness ==
    /\ OrchestratorReturned
    /\ Len(result.suspect_hccs) = 2
    /\ result.suspect_hccs[1].hcc = "HCC_18"
    /\ result.suspect_hccs[2].hcc = "HCC_19"
    /\ member.member_months = 6
    /\ result.financial_impact[1].estimated_revenue_uplift
           = 100 * (result.suspect_hccs[1].revenue_uplift_estimate
                    + result.suspect_hccs[2].revenue_uplift_estimate)
    /\ result.financial_impact[1].estimated_revenue_uplift > 0


\* ---------------------------------------------------------------------------
\* The sign of the Finance Agent's MLR delta
\* ---------------------------------------------------------------------------

\* C29: for findings with non-negative uplifts and a context with
\* claims_cost >= 0, mlr_improvement_bps is never positive, and raw_mlr and
\* adjusted_mlr are both 0 when premium + uplift <= 0.
C29_BpsNeverPositive ==
    (/\ FinanceReturned
     /\ call.args[2].claims_cost >= 0
     /\ \A i \in 1..Len(call.args[1].suspect_hccs) :
            /\ call.args[1].suspect_hccs[i].raf_uplift >= 0
            /\ call.args[1].suspect_hccs[i].revenue_uplift_estimate >= 0) =>
        /\ result.financial_impact.mlr_improvement_bps <= 0
        /\ call.args[2].premium * 100 + UpliftCents <= 0 =>
              /\ result.financial_impact.raw_mlr = 0
              /\ result.financial_impact.adjusted_mlr = 0


\* ---------------------------------------------------------------------------
\* The simulation's divisions
\* ---------------------------------------------------------------------------

\* C30: every answered simulation request has divided by a non-zero member
\* count and a non-zero plan-mix total: high_risk_pct, avgRAF and the three
\* plan-mix proportions are numbers.
C30_NoDivisionByZero ==
    SimulationAnswered =>
        /\ Len(members) # 0
        /\ response.body.high_risk_pct # <<>>
        /\ response.body.avgRAF # <<>>
        /\ MixTotal(response.request.mix) # 0
        /\ response.body.plan_mix.bronze # <<>>
        /\ response.body.plan_mix.silver # <<>>
        /\ response.body.plan_mix.gold # <<>>

====
